---- MODULE Spec2Model ----
(***************************************************************************)
(* Data Alchemist: the validation engine (src/src/app/validation.ts) and   *)
(* the allocation scoring pass (generateAllocationPreview in page.tsx) as  *)
(* state machines over the three tables, the weights, the issue list and   *)
(* the allocation preview.                                                 *)
(*                                                                         *)
(* Representation.                                                         *)
(*  - A JavaScript string is a sequence of one-character strings.          *)
(*  - A cell value is Str(s), NumCell(n) or Undefined (the column is       *)
(*    absent from the row).                                                *)
(*  - A JavaScript number is [nan |-> BOOLEAN, v |-> Int], v counting      *)
(*    hundredths (2.5 is v = 250); literals with more than two fraction    *)
(*    digits, exponents, hex literals and Infinity are outside the inputs  *)
(*    the specifications enumerate.                                         *)
(*  - A row is a function from the column names it has to cell values.     *)
(***************************************************************************)
EXTENDS Integers, Sequences, FiniteSets, TLC

VARIABLES
    clients,            \* useState clients: a sequence of rows, or Null
    workers,            \* useState workers
    tasks,              \* useState tasks
    weights,            \* useState weights: the five dials
    validationErrors,   \* useState validationErrors: the issue list
    validationPending,  \* the [clients, workers, tasks] effect has not run yet
    crashed,            \* an exception escaped validateData
    allocations,        \* generateAllocationPreview's local list, before sort
    allocationPreview,  \* what generateAllocationPreview returned
    rendered,           \* the render that computes allocationPreview has run
    apiKey,             \* useState apiKey
    rules,              \* useState rules: the rule list
    ruleType,           \* useState ruleType: the selected kind
    ruleInput,          \* useState ruleInput
    freeFormInput,      \* useState freeFormInput
    ruleSuggestions,    \* useState ruleSuggestions
    modify,             \* useState modify: the command typed for each entity
    dataCorrections,    \* useState dataCorrections: the suggestions per entity
    lastModified,       \* useState lastModified
    isLoadingAI,        \* useState isLoadingAI: the loading flag
    aiError,            \* useState aiError: the message shown, or Null
    timers,             \* the setTimeout(() => setAiError(null), 3000) calls armed
    inFlight,           \* the handlers suspended at their await, one record each
    uncaught,           \* an exception escaped a handler
    call,               \* the aiService call under way: arguments, phase, result
    search,             \* useState search: the search text typed for each entity
    filtered,           \* useState filtered: the rows the grids show
    filterRuns,         \* the doFilter calls suspended at an await, one record each
    filterDeps          \* the dependencies the doFilter effect last ran with

tableVars == <<clients, workers, tasks>>

previewVars == <<allocations, allocationPreview, rendered>>

ruleVars == <<rules, ruleType, ruleInput, freeFormInput, ruleSuggestions>>

assistVars == <<apiKey, modify, dataCorrections, lastModified, isLoadingAI, aiError,
                timers, inFlight, uncaught>>

viewVars == <<search, filtered, filterRuns, filterDeps>>

pageVars == <<ruleVars, assistVars, call, viewVars>>

vars == <<clients, workers, tasks, weights, validationErrors,
          validationPending, crashed, allocations, allocationPreview, rendered,
          pageVars>>

(***************************************************************************)
(* Values                                                                  *)
(***************************************************************************)
Null == [t |-> "null"]
Undefined == [t |-> "undefined"]
Str(s) == [t |-> "string", s |-> s]
NaN == [nan |-> TRUE, v |-> 0]
Number(n) == [nan |-> FALSE, v |-> n]
Int100(i) == Number(i * 100)
NumCell(n) == [t |-> "number", n |-> n]

IsString(c) == c.t = "string"
IsNumberCell(c) == c.t = "number"

Digits == {"0", "1", "2", "3", "4", "5", "6", "7", "8", "9"}
IsDigit(ch) == ch \in Digits
DigitVal(ch) ==
    CASE ch = "0" -> 0 [] ch = "1" -> 1 [] ch = "2" -> 2 [] ch = "3" -> 3
      [] ch = "4" -> 4 [] ch = "5" -> 5 [] ch = "6" -> 6 [] ch = "7" -> 7
      [] ch = "8" -> 8 [] ch = "9" -> 9

IsSpace(ch) == ch = " "

Min(a, b) == IF a < b THEN a ELSE b

\* JavaScript relational operators on numbers: every comparison with NaN is false.
Lt(a, b) == ~a.nan /\ ~b.nan /\ a.v < b.v
Gt(a, b) == Lt(b, a)
Add(a, b) == IF a.nan \/ b.nan THEN NaN ELSE Number(a.v + b.v)

(***************************************************************************)
(* String helpers: String.prototype.trim, split, includes                  *)
(***************************************************************************)
\* index of the first non-space character at or after i (Len(s)+1 when none)
RECURSIVE SkipSpaces(_, _)
SkipSpaces(s, i) ==
    IF i <= Len(s) /\ IsSpace(s[i]) THEN SkipSpaces(s, i + 1) ELSE i

\* index of the last non-space character at or before i (0 when none)
RECURSIVE SkipSpacesBack(_, _)
SkipSpacesBack(s, i) ==
    IF i >= 1 /\ IsSpace(s[i]) THEN SkipSpacesBack(s, i - 1) ELSE i

Trim(s) ==
    LET a == SkipSpaces(s, 1)
        b == SkipSpacesBack(s, Len(s))
    IN IF a > b THEN <<>> ELSE SubSeq(s, a, b)

\* s.split(sep) for a one-character separator: "" gives [""]
RECURSIVE SplitFrom(_, _, _, _)
SplitFrom(s, sep, start, i) ==
    IF i > Len(s) THEN <<SubSeq(s, start, Len(s))>>
    ELSE IF s[i] = sep
         THEN <<SubSeq(s, start, i - 1)>> \o SplitFrom(s, sep, i + 1, i + 1)
         ELSE SplitFrom(s, sep, start, i + 1)

Split(s, sep) == SplitFrom(s, sep, 1, 1)

Includes(s, ch) == \E i \in 1..Len(s) : s[i] = ch

RECURSIVE FilterNonEmpty(_)
FilterNonEmpty(ss) ==
    IF ss = <<>> THEN <<>>
    ELSE IF Head(ss) = <<>> THEN FilterNonEmpty(Tail(ss))
         ELSE <<Head(ss)>> \o FilterNonEmpty(Tail(ss))

MapTrim(ss) == [i \in 1..Len(ss) |-> Trim(ss[i])]

\* (cell as string || '').split(',').map(s => s.trim()).filter(Boolean);
\* callable only when the cell is a string or falsy: see SplitThrows
SplitTags(c) ==
    IF IsString(c) THEN FilterNonEmpty(MapTrim(Split(c.s, ","))) ELSE <<>>

\* x.split is not a function: a truthy cell that is not a string
SplitThrows(c) == IsNumberCell(c) /\ c.n # 0

(***************************************************************************)
(* Number literals                                                         *)
(***************************************************************************)
\* index after the run of digits starting at i
RECURSIVE SkipDigits(_, _)
SkipDigits(s, i) ==
    IF i <= Len(s) /\ IsDigit(s[i]) THEN SkipDigits(s, i + 1) ELSE i

\* value of the digits s[i..j-1] as an integer
RECURSIVE DigitsValue(_, _, _)
DigitsValue(s, i, j) ==
    IF j <= i THEN 0 ELSE DigitsValue(s, i, j - 1) * 10 + DigitVal(s[j - 1])

\* the first two fraction digits s[i], s[i+1] (before j) as hundredths
FractionValue(s, i, j) ==
    (IF i < j THEN DigitVal(s[i]) * 10 ELSE 0)
      + (IF i + 1 < j THEN DigitVal(s[i + 1]) ELSE 0)

\* parseInt(str): leading white space, a sign, then digits up to the first
\* character that is not one; NaN when there is no digit
ParseInt(s) ==
    LET a == SkipSpaces(s, 1)
        neg == a <= Len(s) /\ s[a] = "-"
        b == IF a <= Len(s) /\ s[a] \in {"-", "+"} THEN a + 1 ELSE a
        e == SkipDigits(s, b)
    IN IF e = b THEN NaN
       ELSE Int100(IF neg THEN 0 - DigitsValue(s, b, e) ELSE DigitsValue(s, b, e))

\* Number(str): the whole trimmed string must be a decimal literal; "" is 0
\* the literal t whose integer digits are t[b..e-1] and whose fraction, if
\* any, ends before f: NaN unless it is the whole of t and has a digit
DecimalParts(t, neg, b, e, f) ==
    IF f # Len(t) + 1 THEN NaN
    ELSE IF e = b /\ (f = e \/ f = e + 1) THEN NaN
    ELSE Number((IF neg THEN 0 - 1 ELSE 1)
                  * (DigitsValue(t, b, e) * 100 + FractionValue(t, e + 1, f)))

DecimalAt(t, neg, b, e) ==
    DecimalParts(t, neg, b, e,
                 IF e <= Len(t) /\ t[e] = "." THEN SkipDigits(t, e + 1) ELSE e)

SignedDecimal(t, neg, b) == DecimalAt(t, neg, b, SkipDigits(t, b))

TrimmedToNumber(t) ==
    IF t = <<>> THEN Number(0)
    ELSE SignedDecimal(t, t[1] = "-", IF t[1] \in {"-", "+"} THEN 2 ELSE 1)

StringToNumber(s) == TrimmedToNumber(Trim(s))

\* Number(cell)
ToNumber(c) ==
    CASE c.t = "string" -> StringToNumber(c.s)
      [] c.t = "number" -> Number(c.n)
      [] c.t = "undefined" -> NaN
      [] c.t = "null" -> Number(0)

(***************************************************************************)
(* JSON.parse                                                              *)
(*                                                                         *)
(* A JSON value is NumCell(n), Str(s), Null, [t |-> "boolean"],            *)
(* [t |-> "array", e |-> <<values>>] or [t |-> "object", m |-> <<members>>]*)
(* A parse step returns [ok, v, next]: the value and the index after it.   *)
(* White space is the space character; string escapes and exponents are    *)
(* outside the enumerated inputs.                                          *)
(***************************************************************************)
Fail == [ok |-> FALSE, v |-> Null, next |-> 0]
Ok(val, j) == [ok |-> TRUE, v |-> val, next |-> j]
Arr(es) == [t |-> "array", e |-> es]
Obj(ms) == [t |-> "object", m |-> ms]
Bool(b) == [t |-> "boolean", b |-> b]

IsArray(val) == val.t = "array"

\* does s hold the characters of lit starting at i
Matches(s, i, lit) ==
    /\ i + Len(lit) - 1 <= Len(s)
    /\ \A k \in 1..Len(lit) : s[i + k - 1] = lit[k]

\* index of the closing quote of the string whose first character is s[i]
RECURSIVE FindQuote(_, _)
FindQuote(s, i) ==
    IF i > Len(s) THEN 0
    ELSE IF s[i] = "\"" THEN i ELSE FindQuote(s, i + 1)

ParseJSONNumber(s, i) ==
    LET neg == s[i] = "-"
        b == IF neg THEN i + 1 ELSE i
        e == IF b <= Len(s) /\ s[b] = "0" THEN b + 1 ELSE SkipDigits(s, b)
        dot == e <= Len(s) /\ s[e] = "."
        f == IF dot THEN SkipDigits(s, e + 1) ELSE e
        mag == DigitsValue(s, b, e) * 100 + FractionValue(s, e + 1, f)
    IN IF e = b \/ (dot /\ f = e + 1) THEN Fail
       ELSE Ok(NumCell(IF neg THEN 0 - mag ELSE mag), f)

ParseJSONString(s, i) ==
    LET q == FindQuote(s, i + 1)
    IN IF q = 0 THEN Fail ELSE Ok(Str(SubSeq(s, i + 1, q - 1)), q + 1)

RECURSIVE ParseValue(_, _)
RECURSIVE ParseElements(_, _, _)
RECURSIVE ParseMembers(_, _, _)

\* the elements of an array, s[i] being the first character of an element
ParseElements(s, i, acc) ==
    LET r == ParseValue(s, i)
        j == IF r.ok THEN SkipSpaces(s, r.next) ELSE 0
    IN IF ~r.ok \/ j > Len(s) THEN Fail
       ELSE IF s[j] = "]" THEN Ok(Arr(Append(acc, r.v)), j + 1)
       ELSE IF s[j] = "," THEN ParseElements(s, SkipSpaces(s, j + 1), Append(acc, r.v))
       ELSE Fail

\* the members of an object, s[i] being the opening quote of a key
ParseMembers(s, i, acc) ==
    LET k == IF i <= Len(s) /\ s[i] = "\"" THEN ParseJSONString(s, i) ELSE Fail
        c == IF k.ok THEN SkipSpaces(s, k.next) ELSE 0
        r == IF k.ok /\ c <= Len(s) /\ s[c] = ":"
             THEN ParseValue(s, SkipSpaces(s, c + 1)) ELSE Fail
        j == IF r.ok THEN SkipSpaces(s, r.next) ELSE 0
        m == [k |-> k.v.s, val |-> r.v]
    IN IF ~r.ok \/ j > Len(s) THEN Fail
       ELSE IF s[j] = "}" THEN Ok(Obj(Append(acc, m)), j + 1)
       ELSE IF s[j] = "," THEN ParseMembers(s, SkipSpaces(s, j + 1), Append(acc, m))
       ELSE Fail

ParseValue(s, i) ==
    IF i > Len(s) THEN Fail
    ELSE IF s[i] = "[" THEN
        LET j == SkipSpaces(s, i + 1)
        IN IF j <= Len(s) /\ s[j] = "]" THEN Ok(Arr(<<>>), j + 1)
           ELSE ParseElements(s, j, <<>>)
    ELSE IF s[i] = "{" THEN
        LET j == SkipSpaces(s, i + 1)
        IN IF j <= Len(s) /\ s[j] = "}" THEN Ok(Obj(<<>>), j + 1)
           ELSE ParseMembers(s, j, <<>>)
    ELSE IF s[i] = "\"" THEN ParseJSONString(s, i)
    ELSE IF s[i] = "-" \/ IsDigit(s[i]) THEN ParseJSONNumber(s, i)
    ELSE IF Matches(s, i, <<"n", "u", "l", "l">>) THEN Ok(Null, i + 4)
    ELSE IF Matches(s, i, <<"t", "r", "u", "e">>) THEN Ok(Bool(TRUE), i + 4)
    ELSE IF Matches(s, i, <<"f", "a", "l", "s", "e">>) THEN Ok(Bool(FALSE), i + 5)
    ELSE Fail

\* JSON.parse(text): ok = FALSE is the SyntaxError
WholeText(s, r) == IF r.ok /\ SkipSpaces(s, r.next) = Len(s) + 1 THEN r ELSE Fail

JSONParseText(s) == WholeText(s, ParseValue(s, SkipSpaces(s, 1)))

\* JSON.parse(cell): the argument is converted to a string first, so a number
\* parses to itself and undefined ("undefined") is a SyntaxError
JSONParse(c) ==
    CASE c.t = "string" -> JSONParseText(c.s)
      [] c.t = "number" -> Ok(NumCell(c.n), 0)
      [] c.t = "undefined" -> Fail
      [] c.t = "null" -> Ok(Null, 0)

\* typeof p === 'number' && p > 0
IsPositiveNumber(val) == val.t = "number" /\ val.n > 0

(***************************************************************************)
(* Tables and rows                                                         *)
(***************************************************************************)
\* a table is Null (nothing uploaded) or Arr(rows)
Table(rows) == Arr(rows)
Rows(tb) == IF tb.t = "array" THEN tb.e ELSE <<>>

\* `tb && tb.length > 0`
HasRows(tb) == tb.t = "array" /\ Len(tb.e) > 0

\* row[col]: undefined when the row has no such key
Get(row, col) == IF col \in DOMAIN row THEN row[col] ELSE Undefined

\* JavaScript truthiness of a cell
Truthy(c) ==
    CASE c.t = "string" -> c.s # <<>>
      [] c.t = "number" -> c.n # 0
      [] OTHER -> FALSE

\* the concatenation Op(1) \o ... \o Op(n): a forEach that pushes
ConcatUpTo(Op(_), n) ==
    LET f[k \in 0..n] == IF k = 0 THEN <<>> ELSE f[k - 1] \o Op(k)
    IN f[n]

\* the sum Op(1) + ... + Op(n) of JavaScript numbers, starting from 0
SumUpTo(Op(_), n) ==
    LET f[k \in 0..n] == IF k = 0 THEN Number(0) ELSE Add(f[k - 1], Op(k))
    IN f[n]

\* Array.prototype.filter
Filter(seq, Keep(_)) ==
    ConcatUpTo(LAMBDA i : IF Keep(seq[i]) THEN <<seq[i]>> ELSE <<>>, Len(seq))


(***************************************************************************)
(* parsePhases, isValidJSON, isValidTaskID                                 *)
(***************************************************************************)
\* Array.from({ length: end - start + 1 }, (_, i) => start + i), in hundredths
RangeFrom(start, end) ==
    [i \in 1..((end - start) \div 100 + 1) |-> start + (i - 1) * 100]

\* the numbers kept by parsed.filter(p => typeof p === 'number' && p > 0)
NumbersOf(es) == [i \in 1..Len(es) |-> es[i].n]

PositiveNumbersOf(es) == NumbersOf(Filter(es, IsPositiveNumber))

\* the catch branch of parsePhases, for a string
\* parts.map(s => parseInt(s.trim()))
MapParseInt(parts) == [i \in 1..Len(parts) |-> ParseInt(Trim(parts[i]))]

\* const [start, end] = ...: the range when both are numbers in order
RangeOf(start, end) ==
    IF ~start.nan /\ ~end.nan /\ start.v > 0 /\ end.v >= start.v
    THEN RangeFrom(start.v, end.v)
    ELSE <<>>

\* the list when every element is a positive number
ListOf(phases) ==
    IF \A i \in 1..Len(phases) : ~phases[i].nan /\ phases[i].v > 0
    THEN [i \in 1..Len(phases) |-> phases[i].v]
    ELSE <<>>

\* the first two elements of the split, NaN for a missing one
StartEndOf(nums) == RangeOf(nums[1], IF Len(nums) >= 2 THEN nums[2] ELSE NaN)

ParsePhasesFallback(s) ==
    IF Includes(s, "-") THEN StartEndOf(MapParseInt(Split(s, "-")))
    ELSE ListOf(MapParseInt(Split(s, ",")))

\* parsePhases throws: JSON.parse failed and phaseStr.includes is not callable
parsePhasesThrows(c) == ~JSONParse(c).ok /\ ~IsString(c)

\* parsePhases(phaseStr): the phase numbers, in hundredths
PhasesOf(c, parsed) ==
    IF parsed.ok THEN (IF IsArray(parsed.v) THEN PositiveNumbersOf(parsed.v.e) ELSE <<>>)
    ELSE IF IsString(c) THEN ParsePhasesFallback(c.s)
    ELSE <<>>

parsePhases(c) == PhasesOf(c, JSONParse(c))

isValidJSON(c) == JSONParse(c).ok

\* /^X\d+$/.test(str)
MatchesLetterDigits(s, letter) ==
    /\ Len(s) >= 2
    /\ s[1] = letter
    /\ \A i \in 2..Len(s) : IsDigit(s[i])

\* regex.test(cell): the cell is converted to a string; "undefined" and the
\* digits of a number match no /^X\d+$/
TestLetterDigits(c, letter) == IsString(c) /\ MatchesLetterDigits(c.s, letter)

isValidTaskID(c) == TestLetterDigits(c, "T")

(***************************************************************************)
(* validateData                                                            *)
(*                                                                         *)
(* An issue is [entity, rowIndex, column, message, args, severity]:        *)
(* message names the template of the code's message and args are the       *)
(* values it interpolates. rowIndex NoRow is the code's null.              *)
(***************************************************************************)
NoRow == -1

Issue(entity, rowIndex, column, message, args, severity) ==
    [entity |-> entity, rowIndex |-> rowIndex, column |-> column,
     message |-> message, args |-> args, severity |-> severity]

requiredClientCols ==
    <<"ClientID", "ClientName", "PriorityLevel", "RequestedTaskIDs", "GroupTag",
      "AttributesJSON">>
requiredWorkerCols ==
    <<"WorkerID", "WorkerName", "Skills", "AvailableSlots", "MaxLoadPerPhase",
      "WorkerGroup", "QualificationLevel">>
requiredTaskCols ==
    <<"TaskID", "TaskName", "Category", "Duration", "RequiredSkills",
      "PreferredPhases", "MaxConcurrent">>

\* 1. Missing required columns, judged on the keys of the first row
MissingColumns(entity, tb, cols) ==
    IF HasRows(tb)
    THEN ConcatUpTo(LAMBDA k :
            IF cols[k] \notin DOMAIN tb.e[1]
            THEN <<Issue(entity, NoRow, cols[k], "Missing required column",
                         <<>>, "error")>>
            ELSE <<>>, Len(cols))
    ELSE <<>>

\* DuplicateIDs comparing each row with the row before it only
DuplicateIDsAdjacent(entity, tb, idCol) ==
    IF HasRows(tb)
    THEN ConcatUpTo(LAMBDA i :
            IF i > 1 /\ Get(tb.e[i - 1], idCol) = Get(tb.e[i], idCol)
            THEN <<Issue(entity, i - 1, idCol, "Duplicate ID",
                         <<Get(tb.e[i], idCol)>>, "error")>>
            ELSE <<>>, Len(tb.e))
    ELSE <<>>

\* 2. Duplicate IDs: the row's ID is already in `seen`
DuplicateIDs(entity, tb, idCol) ==
    IF HasRows(tb)
    THEN ConcatUpTo(LAMBDA i :
            IF \E j \in 1..(i - 1) : Get(tb.e[j], idCol) = Get(tb.e[i], idCol)
            THEN <<Issue(entity, i - 1, idCol, "Duplicate ID",
                         <<Get(tb.e[i], idCol)>>, "error")>>
            ELSE <<>>, Len(tb.e))
    ELSE <<>>

\* slots.some(s => typeof s !== 'number' || s <= 0)
SomeNotPositive(es) == \E k \in 1..Len(es) : ~IsPositiveNumber(es[k])

\* SlotIssue with `if` for `else if`: slots.some on a value that is not an
\* array throws, so the catch pushes the malformed message as well
SlotIssueNoElse(r, i) ==
    IF ~r.ok
    THEN <<Issue("workers", i - 1, "AvailableSlots",
                 "Malformed AvailableSlots (should be JSON array)", <<>>, "error")>>
    ELSE IF ~IsArray(r.v)
    THEN <<Issue("workers", i - 1, "AvailableSlots",
                 "AvailableSlots must be a JSON array", <<>>, "error"),
           Issue("workers", i - 1, "AvailableSlots",
                 "Malformed AvailableSlots (should be JSON array)", <<>>, "error")>>
    ELSE IF SomeNotPositive(r.v.e)
    THEN <<Issue("workers", i - 1, "AvailableSlots",
                 "AvailableSlots must contain only positive numbers", <<>>, "error")>>
    ELSE <<>>

\* 3. Malformed lists (AvailableSlots): the issue of row i, r being what
\* JSON.parse(row.AvailableSlots) gave
SlotIssue(r, i) ==
    IF ~r.ok
    THEN <<Issue("workers", i - 1, "AvailableSlots",
                 "Malformed AvailableSlots (should be JSON array)", <<>>, "error")>>
    ELSE IF ~IsArray(r.v)
    THEN <<Issue("workers", i - 1, "AvailableSlots",
                 "AvailableSlots must be a JSON array", <<>>, "error")>>
    ELSE IF SomeNotPositive(r.v.e)
    THEN <<Issue("workers", i - 1, "AvailableSlots",
                 "AvailableSlots must contain only positive numbers", <<>>, "error")>>
    ELSE <<>>

MalformedSlots(w) ==
    IF HasRows(w)
    THEN ConcatUpTo(LAMBDA i : SlotIssue(JSONParse(Get(w.e[i], "AvailableSlots")), i),
                    Len(w.e))
    ELSE <<>>

\* isNaN(val) || val < 1 || val > 5
PriorityOutOfRange(val) == val.nan \/ Lt(val, Int100(1)) \/ Gt(val, Int100(5))

\* isNaN(val) || val < 1
BelowOne(val) == val.nan \/ Lt(val, Int100(1))

\* 4. Out-of-range values
OutOfRange(c, w, tk) ==
    (IF HasRows(c)
     THEN ConcatUpTo(LAMBDA i :
            IF PriorityOutOfRange(ToNumber(Get(c.e[i], "PriorityLevel")))
            THEN <<Issue("clients", i - 1, "PriorityLevel",
                         "PriorityLevel must be between 1 and 5", <<>>, "error")>>
            ELSE <<>>, Len(c.e))
     ELSE <<>>)
    \o
    (IF HasRows(tk)
     THEN ConcatUpTo(LAMBDA i :
            IF BelowOne(ToNumber(Get(tk.e[i], "Duration")))
            THEN <<Issue("tasks", i - 1, "Duration",
                         "Duration must be >= 1", <<>>, "error")>>
            ELSE <<>>, Len(tk.e))
     ELSE <<>>)
    \o
    (IF HasRows(w)
     THEN ConcatUpTo(LAMBDA i :
            IF BelowOne(ToNumber(Get(w.e[i], "MaxLoadPerPhase")))
            THEN <<Issue("workers", i - 1, "MaxLoadPerPhase",
                         "MaxLoadPerPhase must be >= 1", <<>>, "error")>>
            ELSE <<>>, Len(w.e))
     ELSE <<>>)

\* 5. Broken JSON (AttributesJSON): only a non-empty string is parsed
BrokenJSON(c) ==
    IF HasRows(c)
    THEN ConcatUpTo(LAMBDA i :
            LET a == Get(c.e[i], "AttributesJSON")
            IN IF Truthy(a) /\ IsString(a) /\ ~isValidJSON(a)
               THEN <<Issue("clients", i - 1, "AttributesJSON",
                            "Malformed JSON in AttributesJSON", <<>>, "error")>>
               ELSE <<>>, Len(c.e))
    ELSE <<>>

\* taskIDs.has(taskId): some task row's TaskID is this string
TaskIDKnown(tk, token) == \E j \in 1..Len(tk.e) : Get(tk.e[j], "TaskID") = Str(token)

\* 6. Unknown references (RequestedTaskIDs not in tasks)
UnknownReferences(c, tk) ==
    IF HasRows(c) /\ HasRows(tk)
    THEN ConcatUpTo(LAMBDA i :
            LET requestedTasks == SplitTags(Get(c.e[i], "RequestedTaskIDs"))
            IN ConcatUpTo(LAMBDA k :
                 IF ~TaskIDKnown(tk, requestedTasks[k])
                 THEN <<Issue("clients", i - 1, "RequestedTaskIDs",
                              "Unknown TaskID referenced",
                              <<Str(requestedTasks[k])>>, "error")>>
                 ELSE <<>>, Len(requestedTasks)), Len(c.e))
    ELSE <<>>

\* 6.5. Invalid TaskID format in RequestedTaskIDs
InvalidRequestedFormat(c) ==
    IF HasRows(c)
    THEN ConcatUpTo(LAMBDA i :
            LET requestedTasks == SplitTags(Get(c.e[i], "RequestedTaskIDs"))
            IN ConcatUpTo(LAMBDA k :
                 IF ~isValidTaskID(Str(requestedTasks[k]))
                 THEN <<Issue("clients", i - 1, "RequestedTaskIDs",
                              "Invalid TaskID format",
                              <<Str(requestedTasks[k])>>, "error")>>
                 ELSE <<>>, Len(requestedTasks)), Len(c.e))
    ELSE <<>>

\* 8. Overloaded workers: maxLoad > slots.length, only for a parsed array
Overloaded(r, maxLoad, i) ==
    IF r.ok /\ IsArray(r.v) /\ Gt(maxLoad, Int100(Len(r.v.e)))
    THEN <<Issue("workers", i - 1, "MaxLoadPerPhase",
                 "MaxLoadPerPhase exceeds available slots",
                 <<maxLoad, Int100(Len(r.v.e))>>, "warning")>>
    ELSE <<>>

OverloadedWorkers(w) ==
    IF HasRows(w)
    THEN ConcatUpTo(LAMBDA i :
            Overloaded(JSONParse(Get(w.e[i], "AvailableSlots")),
                       ToNumber(Get(w.e[i], "MaxLoadPerPhase")), i), Len(w.e))
    ELSE <<>>

\* a value a Set or includes() compares by value; arrays and objects are
\* compared by identity, and every JSON.parse makes new ones
IsPrimitive(val) == val.t \in {"number", "string", "boolean", "null"}

SameValueZero(a, b) == IsPrimitive(a) /\ a = b

\* Set.prototype.add on a Set kept as the sequence of its values in insertion order
SetAdd(set, val) ==
    IF \E j \in 1..Len(set) : SameValueZero(set[j], val) THEN set ELSE Append(set, val)

\* slots.forEach(slot => allPhases.add(slot)) over every worker, in order
\* the elements of a parsed array, none for anything else
ElementsOf(r) == IF r.ok /\ IsArray(r.v) THEN r.v.e ELSE <<>>

\* the Set the values of a list make
SetOf(all) ==
    LET f[k \in 0..Len(all)] == IF k = 0 THEN <<>> ELSE SetAdd(f[k - 1], all[k])
    IN f[Len(all)]

\* the phases kept as a list, one entry per mention, instead of a Set
AllPhasesListed(w) ==
    ConcatUpTo(LAMBDA i : ElementsOf(JSONParse(Get(w.e[i], "AvailableSlots"))), Len(w.e))

AllPhases(w) ==
    SetOf(ConcatUpTo(LAMBDA i : ElementsOf(JSONParse(Get(w.e[i], "AvailableSlots"))),
                     Len(w.e)))

\* preferredPhases.includes(phase)
PhasesInclude(phases, phase) ==
    phase.t = "number" /\ \E k \in 1..Len(phases) : phases[k] = phase.n

\* Array.isArray(slots) && slots.includes(phase), false when JSON.parse throws
SlotsInclude(r, phase) ==
    r.ok /\ IsArray(r.v) /\ \E k \in 1..Len(r.v.e) : SameValueZero(r.v.e[k], phase)

WorkerInPhase(row, phase) == SlotsInclude(JSONParse(Get(row, "AvailableSlots")), phase)

TotalDuration(tk, phase) ==
    SumUpTo(LAMBDA i :
        IF PhasesInclude(parsePhases(Get(tk.e[i], "PreferredPhases")), phase)
        THEN ToNumber(Get(tk.e[i], "Duration")) ELSE Number(0), Len(tk.e))

TotalSlots(w, phase) ==
    SumUpTo(LAMBDA i :
        IF WorkerInPhase(w.e[i], phase)
        THEN ToNumber(Get(w.e[i], "MaxLoadPerPhase")) ELSE Number(0), Len(w.e))

\* 9. Phase-slot saturation
Saturated(phase, totalDuration, totalSlots) ==
    IF Gt(totalDuration, totalSlots)
    THEN <<Issue("tasks", NoRow, "PreferredPhases", "Phase is oversaturated",
                 <<phase, totalDuration, totalSlots>>, "warning")>>
    ELSE <<>>

SaturatedAmong(allPhases, w, tk) ==
    ConcatUpTo(LAMBDA k :
        Saturated(allPhases[k], TotalDuration(tk, allPhases[k]),
                  TotalSlots(w, allPhases[k])), Len(allPhases))

PhaseSaturation(w, tk) ==
    IF HasRows(w) /\ HasRows(tk) THEN SaturatedAmong(AllPhases(w), w, tk) ELSE <<>>

\* allWorkerSkills.has(skill)
SkillCovered(w, skill) ==
    \E j \in 1..Len(w.e) :
        LET skills == SplitTags(Get(w.e[j], "Skills"))
        IN \E k \in 1..Len(skills) : skills[k] = skill

\* 10. Skill-coverage matrix
SkillCoverage(w, tk) ==
    IF HasRows(w) /\ HasRows(tk)
    THEN ConcatUpTo(LAMBDA i :
            LET requiredSkills == SplitTags(Get(tk.e[i], "RequiredSkills"))
                uncoveredSkills == Filter(requiredSkills, LAMBDA s : ~SkillCovered(w, s))
            IN IF Len(uncoveredSkills) > 0
               THEN <<Issue("tasks", i - 1, "RequiredSkills",
                            "No worker covers required skills",
                            [k \in 1..Len(uncoveredSkills) |-> Str(uncoveredSkills[k])],
                            "error")>>
               ELSE <<>>, Len(tk.e))
    ELSE <<>>

\* a worker that has one of the required skills
QualifiedForSome(workerRow, requiredSkills) ==
    LET workerSkills == SplitTags(Get(workerRow, "Skills"))
    IN \E k \in 1..Len(requiredSkills) :
         \E j \in 1..Len(workerSkills) : workerSkills[j] = requiredSkills[k]

\* requiredSkills.every(skill => workerSkills.includes(skill))
Qualified(workerRow, requiredSkills) ==
    LET workerSkills == SplitTags(Get(workerRow, "Skills"))
    IN \A k \in 1..Len(requiredSkills) :
         \E j \in 1..Len(workerSkills) : workerSkills[j] = requiredSkills[k]

\* 11. Max-concurrency feasibility
QualifiedWorkers(w, requiredSkills) == Filter(w.e, LAMBDA r : Qualified(r, requiredSkills))

Infeasible(maxConcurrent, qualifiedWorkers, i) ==
    IF Gt(maxConcurrent, Int100(Len(qualifiedWorkers)))
    THEN <<Issue("tasks", i - 1, "MaxConcurrent",
                 "MaxConcurrent exceeds qualified workers",
                 <<maxConcurrent, Int100(Len(qualifiedWorkers))>>, "warning")>>
    ELSE <<>>

MaxConcurrency(w, tk) ==
    IF HasRows(w) /\ HasRows(tk)
    THEN ConcatUpTo(LAMBDA i :
            Infeasible(ToNumber(Get(tk.e[i], "MaxConcurrent")),
                       QualifiedWorkers(w, SplitTags(Get(tk.e[i], "RequiredSkills"))), i),
            Len(tk.e))
    ELSE <<>>

\* 12. PreferredPhases validation
InvalidPhases(tk) ==
    IF HasRows(tk)
    THEN ConcatUpTo(LAMBDA i :
            IF Len(parsePhases(Get(tk.e[i], "PreferredPhases"))) = 0
            THEN <<Issue("tasks", i - 1, "PreferredPhases",
                         "Invalid PreferredPhases format", <<>>, "error")>>
            ELSE <<>>, Len(tk.e))
    ELSE <<>>

validGroups == {<<"G", "r", "o", "u", "p", "A">>, <<"G", "r", "o", "u", "p", "B">>,
                <<"G", "r", "o", "u", "p", "C">>}

\* validGroups.has(group)
IsValidGroup(c) == IsString(c) /\ c.s \in validGroups

\* 13.1. GroupTag validation
InvalidGroupTags(c) ==
    IF HasRows(c)
    THEN ConcatUpTo(LAMBDA i :
            LET group == Get(c.e[i], "GroupTag")
            IN IF Truthy(group) /\ ~IsValidGroup(group)
               THEN <<Issue("clients", i - 1, "GroupTag", "Invalid GroupTag",
                            <<group>>, "warning")>>
               ELSE <<>>, Len(c.e))
    ELSE <<>>

\* name.trim is not a function: a truthy name that is not a string
NameTrimThrows(name) == Truthy(name) /\ ~IsString(name)

\* 13.2. Client name validation: !name || name.trim().length === 0
EmptyClientNames(c) ==
    IF HasRows(c)
    THEN ConcatUpTo(LAMBDA i :
            LET name == Get(c.e[i], "ClientName")
            IN IF ~Truthy(name) \/ (IsString(name) /\ Len(Trim(name.s)) = 0)
               THEN <<Issue("clients", i - 1, "ClientName",
                            "ClientName cannot be empty", <<>>, "error")>>
               ELSE <<>>, Len(c.e))
    ELSE <<>>

\* 13.3, 13.4, 13.5. ID format validation
InvalidIDFormat(entity, tb, idCol, letter) ==
    IF HasRows(tb)
    THEN ConcatUpTo(LAMBDA i :
            IF ~TestLetterDigits(Get(tb.e[i], idCol), letter)
            THEN <<Issue(entity, i - 1, idCol, "Invalid ID format",
                         <<Get(tb.e[i], idCol)>>, "error")>>
            ELSE <<>>, Len(tb.e))
    ELSE <<>>

\* a TypeError escapes validateData: .split or .trim on a truthy cell that is
\* not a string, or parsePhases on a cell that is neither JSON nor a string
validateDataThrows(c, w, tk) ==
    \/ /\ HasRows(c)
       /\ \E i \in 1..Len(c.e) :
            \/ SplitThrows(Get(c.e[i], "RequestedTaskIDs"))
            \/ NameTrimThrows(Get(c.e[i], "ClientName"))
    \/ /\ HasRows(w) /\ HasRows(tk)
       /\ \/ \E i \in 1..Len(w.e) : SplitThrows(Get(w.e[i], "Skills"))
          \/ \E i \in 1..Len(tk.e) : SplitThrows(Get(tk.e[i], "RequiredSkills"))
    \/ /\ HasRows(tk)
       /\ \E i \in 1..Len(tk.e) : parsePhasesThrows(Get(tk.e[i], "PreferredPhases"))

\* validateData(clients, workers, tasks), when it returns
validateData(c, w, tk) ==
    MissingColumns("clients", c, requiredClientCols)
    \o MissingColumns("workers", w, requiredWorkerCols)
    \o MissingColumns("tasks", tk, requiredTaskCols)
    \o DuplicateIDs("clients", c, "ClientID")
    \o DuplicateIDs("workers", w, "WorkerID")
    \o DuplicateIDs("tasks", tk, "TaskID")
    \o MalformedSlots(w)
    \o OutOfRange(c, w, tk)
    \o BrokenJSON(c)
    \o UnknownReferences(c, tk)
    \o InvalidRequestedFormat(c)
    \o OverloadedWorkers(w)
    \o PhaseSaturation(w, tk)
    \o SkillCoverage(w, tk)
    \o MaxConcurrency(w, tk)
    \o InvalidPhases(tk)
    \o InvalidGroupTags(c)
    \o EmptyClientNames(c)
    \o InvalidIDFormat("tasks", tk, "TaskID", "T")
    \o InvalidIDFormat("workers", w, "WorkerID", "W")
    \o InvalidIDFormat("clients", c, "ClientID", "C")

(***************************************************************************)
(* generateAllocationPreview                                               *)
(*                                                                         *)
(* A score is a JavaScript number counted in units of 1/ScoreUnit, so that  *)
(* every term is an integer: weights are whole percents, levels have at    *)
(* most two fraction digits, and 252000 = 2^5 3^2 5^3 7 is divisible by     *)
(* every currentLoad + 1 up to 10. Sums are exact where the code's are     *)
(* floating point.                                                         *)
(***************************************************************************)
ScoreUnit == 100 * 252000

\* Number(x) || 1
OrOne(val) == IF val.nan \/ val.v = 0 THEN Int100(1) ELSE val

NumberOr1(c) == OrOne(ToNumber(c))

\* priorityLevel * (weights.priorityLevel / 100)
PriorityScore(priorityLevel, wt) ==
    Number(priorityLevel.v * wt.priorityLevel * (ScoreUnit \div 10000))

\* a fairness term that would read the fifth dial as well
FairnessScoreFulfillment(currentLoad, wt) ==
    Number((wt.fairness + wt.requestedTaskFulfillment)
             * ((ScoreUnit \div 100) \div (currentLoad + 1)))

\* (1 / (currentLoad + 1)) * (weights.fairness / 100)
FairnessScore(currentLoad, wt) ==
    Number(wt.fairness * ((ScoreUnit \div 100) \div (currentLoad + 1)))

\* (1 / qualificationLevel) * (weights.cost / 100)
CostScore(qualificationLevel, wt) ==
    Number(wt.cost * (ScoreUnit \div qualificationLevel.v))

\* availableSlots.length: the length of an array or a string, the member
\* "length" of an object, undefined (NaN once divided) for a number or a
\* boolean; reading it from null throws
JSLengthThrows(val) == val.t = "null"

sLength == <<"l", "e", "n", "g", "t", "h">>

\* the number a member value becomes when divided (nested arrays and objects
\* are outside the enumerated inputs)
MemberToNumber(val) ==
    CASE val.t = "number" -> Number(val.n)
      [] val.t = "string" -> StringToNumber(val.s)
      [] val.t = "null" -> Number(0)
      [] val.t = "boolean" -> (IF val.b THEN Int100(1) ELSE Number(0))
      [] OTHER -> NaN

JSLength(val) ==
    CASE val.t = "array" -> Int100(Len(val.e))
      [] val.t = "string" -> Int100(Len(val.s))
      [] val.t = "object" ->
            (LET keys == {k \in 1..Len(val.m) : val.m[k].k = sLength}
             IN IF keys = {} THEN NaN
                ELSE MemberToNumber(val.m[CHOOSE k \in keys : \A j \in keys : j <= k].val))
      [] OTHER -> NaN

\* (availableSlots.length / 10) * (weights.workload / 100)
WorkloadScore(length, wt) ==
    IF length.nan THEN NaN ELSE Number(length.v * wt.workload * (ScoreUnit \div 100000))

\* x.toFixed(2), in hundredths: the nearest, the larger magnitude on a tie
ToFixed2(x) ==
    IF x.nan THEN NaN
    ELSE LET unit == ScoreUnit \div 100
             mag == ((IF x.v < 0 THEN 0 - x.v ELSE x.v) + unit \div 2) \div unit
         IN Number(IF x.v < 0 THEN 0 - mag ELSE mag)

\* tasks.find(t => t.TaskID === taskId): the index of the first such row, or 0
FindTask(tk, taskId) ==
    IF \E j \in 1..Len(tk.e) : Get(tk.e[j], "TaskID") = Str(taskId)
    THEN CHOOSE j \in 1..Len(tk.e) :
            /\ Get(tk.e[j], "TaskID") = Str(taskId)
            /\ \A i \in 1..(j - 1) : Get(tk.e[i], "TaskID") # Str(taskId)
    ELSE 0

\* the (client, requested task, qualified worker) triples in the order the
\* nested forEach loops visit them: ci and wi are row numbers, ti the position
\* of the token in the client's RequestedTaskIDs, tj the row of the task found
Triples(c, w, tk) ==
    ConcatUpTo(LAMBDA ci :
        LET requestedTasks == SplitTags(Get(c.e[ci], "RequestedTaskIDs"))
        IN ConcatUpTo(LAMBDA ti :
            LET tj == FindTask(tk, requestedTasks[ti])
                requiredSkills ==
                    IF tj = 0 THEN <<>> ELSE SplitTags(Get(tk.e[tj], "RequiredSkills"))
            IN IF tj = 0 THEN <<>>
               ELSE ConcatUpTo(LAMBDA wi :
                        IF Qualified(w.e[wi], requiredSkills)
                        THEN <<[ci |-> ci, ti |-> ti, tj |-> tj, wi |-> wi]>>
                        ELSE <<>>, Len(w.e)),
            Len(requestedTasks)),
        Len(c.e))

\* allocations.filter(a => a.worker === worker.WorkerID).length
CurrentLoad(allocs, workerRow) ==
    Cardinality({k \in 1..Len(allocs) : allocs[k].worker = Get(workerRow, "WorkerID")})

\* the candidate pushed, from the locals of the iteration; the locals are
\* kept beside the five fields of the object
Pushing(client, task, worker, tr, loc) ==
    [client |-> Get(client, "ClientName"),
     task |-> Get(task, "TaskName"),
     worker |-> Get(worker, "WorkerName"),
     score |-> Add(Add(Add(loc.priorityScore, loc.fairnessScore), loc.workloadScore),
                   loc.costScore),
     reason |-> <<[label |-> "Priority", level |-> loc.priorityLevel,
                   pts |-> ToFixed2(loc.priorityScore)],
                  [label |-> "Fairness", pts |-> ToFixed2(loc.fairnessScore)],
                  IF loc.slotsOk
                  THEN [label |-> "Workload", pts |-> ToFixed2(loc.workloadScore)]
                  ELSE [label |-> "Workload 0 pts (invalid slots)"],
                  [label |-> "Cost", pts |-> ToFixed2(loc.costScore)]>>,
     ci |-> tr.ci, ti |-> tr.ti, tj |-> tr.tj, wi |-> tr.wi,
     currentLoad |-> loc.currentLoad,
     priorityScore |-> loc.priorityScore, fairnessScore |-> loc.fairnessScore,
     workloadScore |-> loc.workloadScore, costScore |-> loc.costScore,
     slotsOk |-> loc.slotsOk]

\* the try block: the workload term, and 0 when JSON.parse or .length throws
Workload(parsed, slotsOk, wt) ==
    IF slotsOk THEN WorkloadScore(JSLength(parsed.v), wt) ELSE Number(0)

\* the locals of one iteration
Scoring(priorityLevel, currentLoad, parsed, slotsOk, qualificationLevel, wt) ==
    [priorityLevel |-> priorityLevel, currentLoad |-> currentLoad, slotsOk |-> slotsOk,
     priorityScore |-> PriorityScore(priorityLevel, wt),
     fairnessScore |-> FairnessScore(currentLoad, wt),
     workloadScore |-> Workload(parsed, slotsOk, wt),
     costScore |-> CostScore(qualificationLevel, wt)]

SlotsOk(parsed) == parsed.ok /\ ~JSLengthThrows(parsed.v)

Parsing(client, task, worker, tr, currentLoad, parsed, wt) ==
    Pushing(client, task, worker, tr,
            Scoring(NumberOr1(Get(client, "PriorityLevel")), currentLoad, parsed,
                    SlotsOk(parsed), NumberOr1(Get(worker, "QualificationLevel")), wt))

\* one pass of the innermost forEach: the candidate pushed for a triple
Candidate(allocs, tr, c, w, tk, wt) ==
    Parsing(c.e[tr.ci], tk.e[tr.tj], w.e[tr.wi], tr, CurrentLoad(allocs, w.e[tr.wi]),
            JSONParse(Get(w.e[tr.wi], "AvailableSlots")), wt)

PushCandidate(allocs, tr, c, w, tk, wt) == Append(allocs, Candidate(allocs, tr, c, w, tk, wt))

\* the local list `allocations` after the first n triples
RECURSIVE PushAll(_, _, _, _, _, _)
PushAll(trs, n, c, w, tk, wt) ==
    IF n = 0 THEN <<>>
    ELSE PushCandidate(PushAll(trs, n - 1, c, w, tk, wt), trs[n], c, w, tk, wt)

EnumerateAll(trs, c, w, tk, wt) == PushAll(trs, Len(trs), c, w, tk, wt)

\* the local list `allocations` when the nested loops end
Enumerate(c, w, tk, wt) == EnumerateAll(Triples(c, w, tk), c, w, tk, wt)

\* the object pushed: { client, task, worker, score, reason }
Pushed(cand) ==
    [client |-> cand.client, task |-> cand.task, worker |-> cand.worker,
     score |-> cand.score, reason |-> cand.reason]

\* the comparator (a, b) => b.score - a.score; sort reads NaN as +0
Compare(a, b) ==
    IF a.score.nan \/ b.score.nan THEN 0 ELSE b.score.v - a.score.v

\* the comparator orders the list consistently: NaN compares equal to every
\* score, so a NaN beside two different scores breaks transitivity
ConsistentComparator(list) ==
    \/ \A k \in 1..Len(list) : ~list[k].score.nan
    \/ \A j, k \in 1..Len(list) :
         (~list[j].score.nan /\ ~list[k].score.nan) => list[j].score = list[k].score

\* insert x after every element that does not sort after it
InsertStable(sorted, x) ==
    LET before == {k \in 1..Len(sorted) : Compare(sorted[k], x) <= 0}
        n == IF before = {} THEN 0
             ELSE CHOOSE k \in before : \A j \in before : j <= k
    IN SubSeq(sorted, 1, n) \o <<x>> \o SubSeq(sorted, n + 1, Len(sorted))

\* Array.prototype.sort with a consistent comparator: stable (ES2019)
StableSort(list) ==
    LET f[k \in 0..Len(list)] == IF k = 0 THEN <<>> ELSE InsertStable(f[k - 1], list[k])
    IN f[Len(list)]

Reorderings(list) ==
    {[k \in 1..Len(list) |-> list[p[k]]] :
        p \in {q \in [1..Len(list) -> 1..Len(list)] :
                 \A i, j \in 1..Len(list) : q[i] = q[j] => i = j}}

\* what allocations.sort(...) may leave: the stable order, or with an
\* inconsistent comparator an implementation-defined order
SortOutcomes(list) ==
    IF ConsistentComparator(list) THEN {StableSort(list)} ELSE Reorderings(list)

AllocationCap == 20

\* .slice(0, 20)
Slice(list, n) == SubSeq(list, 1, Min(n, Len(list)))

\* a TypeError escapes the pass: .split on a truthy cell that is not a string
previewThrows(c, w, tk) ==
    /\ c.t = "array" /\ w.t = "array" /\ tk.t = "array"
    /\ \/ \E i \in 1..Len(c.e) : SplitThrows(Get(c.e[i], "RequestedTaskIDs"))
       \/ \E i \in 1..Len(c.e) :
            LET requestedTasks == SplitTags(Get(c.e[i], "RequestedTaskIDs"))
            IN \E k \in 1..Len(requestedTasks) :
                LET tj == FindTask(tk, requestedTasks[k])
                IN /\ tj # 0
                   /\ \/ SplitThrows(Get(tk.e[tj], "RequiredSkills"))
                      \/ \E j \in 1..Len(w.e) : SplitThrows(Get(w.e[j], "Skills"))

\* the render: const allocationPreview = generateAllocationPreview()
Render ==
    /\ ~rendered
    /\ rendered' = TRUE
    /\ IF previewThrows(clients, workers, tasks)
       THEN /\ crashed' = TRUE
            /\ UNCHANGED <<allocations, allocationPreview>>
       ELSE /\ UNCHANGED crashed
            /\ IF clients.t # "array" \/ workers.t # "array" \/ tasks.t # "array"
               THEN /\ allocations' = <<>>
                    /\ allocationPreview' = <<>>
               ELSE /\ allocations' = Enumerate(clients, workers, tasks, weights)
                    /\ \E sorted \in SortOutcomes(
                            [k \in 1..Len(allocations') |-> Pushed(allocations'[k])]) :
                         allocationPreview' = Slice(sorted, AllocationCap)
    /\ UNCHANGED <<clients, workers, tasks, weights, validationErrors, validationPending>>
    /\ UNCHANGED pageVars

(***************************************************************************)
(* Inputs: the strings and rows the specifications draw tables from        *)
(***************************************************************************)
\* the sequences over `alphabet` of length at most n
RECURSIVE StringsUpTo(_, _)
StringsUpTo(alphabet, n) ==
    IF n = 0 THEN {<<>>}
    ELSE LET shorter == StringsUpTo(alphabet, n - 1)
         IN shorter \cup {Append(s, ch) : s \in shorter, ch \in alphabet}

\* the sequences over `rows` of length at most n
TablesUpTo(rows, n) == {Table(r) : r \in StringsUpTo(rows, n)}

\* the row without the key col
Drop(row, col) == [k \in DOMAIN row \ {col} |-> row[k]]

\* the row with col set to val
With(row, col, val) == [k \in DOMAIN row \cup {col} |-> IF k = col THEN val ELSE row[k]]

sC1 == <<"C", "1">>
sC2 == <<"C", "2">>
sW1 == <<"W", "1">>
sW2 == <<"W", "2">>
sT1 == <<"T", "1">>
sT2 == <<"T", "2">>
sT9 == <<"T", "9">>
sGroupA == <<"G", "r", "o", "u", "p", "A">>
sAnn == <<"A", "n", "n">>
sBob == <<"B", "o", "b">>
sSlots123 == <<"[", "1", ",", "2", ",", "3", "]">>

baseClient ==
    [ClientID |-> Str(sC1), ClientName |-> Str(sAnn), PriorityLevel |-> Str(<<"5">>),
     RequestedTaskIDs |-> Str(sT1), GroupTag |-> Str(sGroupA),
     AttributesJSON |-> Str(<<"{", "}">>)]

baseWorker ==
    [WorkerID |-> Str(sW1), WorkerName |-> Str(sBob), Skills |-> Str(<<"a">>),
     AvailableSlots |-> Str(sSlots123), MaxLoadPerPhase |-> Str(<<"2">>),
     WorkerGroup |-> Str(sGroupA), QualificationLevel |-> Str(<<"1">>)]

baseTask ==
    [TaskID |-> Str(sT1), TaskName |-> Str(<<"t">>), Category |-> Str(<<"c">>),
     Duration |-> Str(<<"2">>), RequiredSkills |-> Str(<<"a">>),
     PreferredPhases |-> Str(<<"1", "-", "3">>), MaxConcurrent |-> Str(<<"1">>)]

DefaultWeights ==
    [priorityLevel |-> 5, requestedTaskFulfillment |-> 5, fairness |-> 5,
     cost |-> 5, workload |-> 5]

\* table shapes: nothing uploaded, an empty upload, one full row, one row
\* lacking a column, one row whose cell is a number (a numeric xlsx cell)
ShapeTables(row, cols) ==
    {Null, Table(<<>>), Table(<<row>>)}
      \cup {Table(<<Drop(row, cols[k])>>) : k \in 1..Len(cols)}
      \cup {Table(<<With(row, cols[k], NumCell(300))>>) : k \in 1..Len(cols)}

(***************************************************************************)
(* The validation effect                                                   *)
(*   useEffect(() => setValidationErrors(validateData(clients, workers,    *)
(*   tasks)), [clients, workers, tasks])                                   *)
(***************************************************************************)
ValidationEffect ==
    /\ validationPending
    /\ validationPending' = FALSE
    /\ IF validateDataThrows(clients, workers, tasks)
       THEN /\ crashed' = TRUE
            /\ UNCHANGED validationErrors
       ELSE /\ validationErrors' = validateData(clients, workers, tasks)
            /\ UNCHANGED crashed
    /\ UNCHANGED <<clients, workers, tasks, weights, allocations, allocationPreview,
                   rendered>>
    /\ UNCHANGED pageVars

sCoRun == <<"c", "o", "R", "u", "n">>

\* no aiService call under way
Idle == [phase |-> "idle"]

\* the useState initial values of search and filtered; the doFilter effect
\* has not run yet
ViewMounted ==
    /\ search = [clients |-> <<>>, workers |-> <<>>, tasks |-> <<>>]
    /\ filtered = [clients |-> Null, workers |-> Null, tasks |-> Null]
    /\ filterRuns = <<>>
    /\ filterDeps = Undefined

\* the useState initial values of the rule builder and the AI features
FeaturesMounted ==
    /\ apiKey = <<>>
    /\ rules = <<>>
    /\ ruleType = sCoRun
    /\ ruleInput = <<>>
    /\ freeFormInput = <<>>
    /\ ruleSuggestions = <<>>
    /\ modify = [clients |-> <<>>, workers |-> <<>>, tasks |-> <<>>]
    /\ dataCorrections = [clients |-> Undefined, workers |-> Undefined, tasks |-> Undefined]
    /\ lastModified = {}
    /\ isLoadingAI = FALSE
    /\ aiError = Null
    /\ timers = 0
    /\ inFlight = <<>>
    /\ uncaught = FALSE
    /\ ViewMounted

\* no aiService call is followed outside the specification of the service
PageMounted == FeaturesMounted /\ call = Idle

\* the tables and weights given, nothing validated or rendered yet
TablesMounted(c, w, tk, wt) ==
    /\ clients = c
    /\ workers = w
    /\ tasks = tk
    /\ weights = wt
    /\ validationErrors = <<>>
    /\ validationPending = TRUE
    /\ crashed = FALSE
    /\ allocations = <<>>
    /\ allocationPreview = <<>>
    /\ rendered = FALSE

\* the state after construction, for given tables and weights
Mounted(c, w, tk, wt) == PageMounted /\ TablesMounted(c, w, tk, wt)

(***************************************************************************)
(* SpecValidate: validateData applied once to tables drawn from bounded    *)
(* families                                                                *)
(***************************************************************************)
MaxDupRows == 3
MaxSlotRows == 2
MaxRefRows == 2
MaxSkillRows == 2
MaxPhaseLen == 3

InitShapes ==
    \E c \in ShapeTables(baseClient, requiredClientCols),
       w \in ShapeTables(baseWorker, requiredWorkerCols),
       tk \in ShapeTables(baseTask, requiredTaskCols) :
        Mounted(c, w, tk, DefaultWeights)

sC3 == <<"C", "3">>
sW3 == <<"W", "3">>
sT3 == <<"T", "3">>

\* one row, two rows sharing an ID, two rows with different IDs
PairTables(row, idCol, id1, id2) ==
    {Table(<<row>>), Table(<<row, row>>),
     Table(<<With(row, idCol, Str(id1)), With(row, idCol, Str(id2))>>)}

\* rows sharing IDs: one table of up to MaxDupRows rows over three IDs, or
\* all three tables with up to two rows
InitDuplicates ==
    \/ \E c \in TablesUpTo({With(baseClient, "ClientID", Str(id)) : id \in {sC1, sC2, sC3}},
                           MaxDupRows) :
            Mounted(c, Table(<<baseWorker>>), Table(<<baseTask>>), DefaultWeights)
    \/ \E w \in TablesUpTo({With(baseWorker, "WorkerID", Str(id)) : id \in {sW1, sW2, sW3}},
                           MaxDupRows) :
            Mounted(Table(<<baseClient>>), w, Table(<<baseTask>>), DefaultWeights)
    \/ \E tk \in TablesUpTo({With(baseTask, "TaskID", Str(id)) : id \in {sT1, sT2, sT3}},
                            MaxDupRows) :
            Mounted(Table(<<baseClient>>), Table(<<baseWorker>>), tk, DefaultWeights)
    \/ \E c \in PairTables(baseClient, "ClientID", sC1, sC2),
          w \in PairTables(baseWorker, "WorkerID", sW1, sW2),
          tk \in PairTables(baseTask, "TaskID", sT1, sT2) :
            Mounted(c, w, tk, DefaultWeights)

SlotCells ==
    {Str(sSlots123),
     Str(<<"[", "1", ",", "2", ",", "-", "3", "]">>),
     Str(<<"n", "o", "t", " ", "j", "s", "o", "n">>),
     Str(<<"5">>), Str(<<"{", "}">>), Str(<<"n", "u", "l", "l">>),
     Str(<<"[", "]">>), Str(<<"[", "0", "]">>),
     Str(<<"[", "1", ",", "\"", "a", "\"", "]">>),
     Str(<<"[", "[", "1", "]", "]">>), Str(<<>>),
     Str(<<"1", ",", "2">>), NumCell(500), Undefined}

InitSlots ==
    \E w \in TablesUpTo({With(baseWorker, "AvailableSlots", s) : s \in SlotCells}
                          \cup {With(baseWorker, "MaxLoadPerPhase", Str(<<"4">>))},
                        MaxSlotRows) :
        Mounted(Table(<<baseClient>>), w, Table(<<baseTask>>), DefaultWeights)

RangeCells ==
    {Str(<<"0">>), Str(<<"1">>), Str(<<"5">>), Str(<<"6">>), Str(<<"2", ".", "5">>),
     Str(<<"a", "b", "c">>), Str(<<>>), Str(<<" ", "3", " ">>), Str(<<"-", "1">>),
     NumCell(300), NumCell(150), Undefined}

InitRanges ==
    \E p \in RangeCells, d \in RangeCells, m \in RangeCells :
        Mounted(Table(<<With(baseClient, "PriorityLevel", p)>>),
                Table(<<With(baseWorker, "MaxLoadPerPhase", m)>>),
                Table(<<With(baseTask, "Duration", d)>>), DefaultWeights)

RequestCells ==
    {Str(sT1), Str(sT1 \o <<",">> \o sT2), Str(sT9), Str(sT9 \o <<",">> \o sT9),
     Str(<<" ">> \o sT1 \o <<" ", ",", " ">> \o sT9 \o <<" ", ",">>),
     Str(<<"T", "X">>), Str(<<>>), Undefined}

InitReferences ==
    \E c \in TablesUpTo({With(baseClient, "RequestedTaskIDs", r) : r \in RequestCells},
                        MaxRefRows),
       tk \in {Null} \cup TablesUpTo({With(baseTask, "TaskID", Str(id)) :
                                        id \in {sT1, sT2}}, MaxRefRows) :
        Mounted(c, Table(<<baseWorker>>), tk, DefaultWeights)

SkillCells ==
    {Str(<<"a">>), Str(<<"a", ",", "b">>), Str(<<"b", ",", " ", "c">>), Str(<<>>),
     Str(<<"c", ",", "c">>)}

InitSkills ==
    \E w \in {Null} \cup TablesUpTo({With(baseWorker, "Skills", s) :
                                        s \in SkillCells \ {Str(<<"c", ",", "c">>)}},
                                     MaxSkillRows),
       tk \in TablesUpTo({With(baseTask, "RequiredSkills", s) : s \in SkillCells},
                         MaxSkillRows) :
        Mounted(Table(<<baseClient>>), w, tk, DefaultWeights)

PhaseAlphabet == {"1", "2", "-", ",", "[", "]", "a", " "}

PhaseCells ==
    {Str(s) : s \in StringsUpTo(PhaseAlphabet, MaxPhaseLen)}
      \cup {Str(<<"2", "-", "4">>), Str(<<"[", "1", ",", "2", ",", "2", "]">>),
            Str(<<"a", "b", "c">>), Str(<<"1", ",", "2", ",", "3">>), Str(<<"5">>)}

InitPhases ==
    \E ph \in PhaseCells :
        Mounted(Table(<<baseClient>>), Table(<<baseWorker>>),
                Table(<<With(baseTask, "PreferredPhases", ph)>>), DefaultWeights)

MaxSatRows == 2

\* workers and tasks sharing phases: loads 2 and 1 against durations 2 and 3
SaturationWorkers ==
    {baseWorker,
     With(With(baseWorker, "AvailableSlots", Str(<<"[", "2", "]">>)), "MaxLoadPerPhase", Str(<<"1">>)),
     With(baseWorker, "AvailableSlots", Str(<<"[", "1", ",", "1", ",", "\"", "a", "\"", "]">>))}

SaturationTasks ==
    {baseTask,
     With(With(baseTask, "Duration", Str(<<"3">>)), "PreferredPhases", Str(<<"[", "2", "]">>)),
     With(baseTask, "PreferredPhases", Str(<<"[", "4", "]">>))}

InitSaturation ==
    \E w \in TablesUpTo(SaturationWorkers, MaxSatRows),
       tk \in TablesUpTo(SaturationTasks, MaxSatRows) :
        Mounted(Table(<<baseClient>>), w, tk, DefaultWeights)

MaxGroupRows == 2

GroupCells ==
    {Str(sGroupA), Str(<<"G", "r", "o", "u", "p", "C">>), Str(<<"g", "r", "o", "u", "p", "a">>), Str(<<"G", "r", "o", "u", "p", "D">>), Str(<<" ", "G", "r", "o", "u", "p", "A">>),
     Str(<<>>)}

InitGroups ==
    \E c \in TablesUpTo({With(baseClient, "GroupTag", g) : g \in GroupCells}, MaxGroupRows) :
        Mounted(c, Table(<<baseWorker>>), Table(<<baseTask>>), DefaultWeights)

InitValidate ==
    \/ InitGroups
    \/ InitSaturation
    \/ InitShapes
    \/ InitDuplicates
    \/ InitSlots
    \/ InitRanges
    \/ InitReferences
    \/ InitSkills
    \/ InitPhases

NextValidate == ValidationEffect

SpecValidate == InitValidate /\ [][NextValidate]_vars

\* validateData has run and returned its list
Validated == ~validationPending /\ ~crashed

(***************************************************************************)
(* SpecScore: one render, generateAllocationPreview applied to tables and  *)
(* weights drawn from bounded families                                     *)
(***************************************************************************)
MaxScoreClients == 2
MaxScoreWorkers == 2
MaxManyClients == 3
MaxSlotWorkers == 3

sPython == <<"p", "y", "t", "h", "o", "n">>
sT1T2 == sT1 \o <<",">> \o sT2
sT1T1 == sT1 \o <<",">> \o sT1

\* slider positions other than the initial ones
SkewedWeights ==
    [priorityLevel |-> 10, requestedTaskFulfillment |-> 5, fairness |-> 100,
     cost |-> 0, workload |-> 50]

FulfillmentWeights ==
    [priorityLevel |-> 5, requestedTaskFulfillment |-> 80, fairness |-> 5,
     cost |-> 5, workload |-> 5]

\* the k-th row of a workers sheet: WorkerID "W<k>"
WorkerNumbered(k, name, skills, slots, level) ==
    [baseWorker EXCEPT !.WorkerID = Str(<<"W">> \o <<CHOOSE d \in Digits : DigitVal(d) = k>>),
                       !.WorkerName = name, !.Skills = Str(skills),
                       !.AvailableSlots = slots, !.QualificationLevel = Str(level)]

\* T1 requires skill a, T2 requires a and b
TwoTasks ==
    Table(<<[baseTask EXCEPT !.TaskName = Str(<<"t", "1">>)],
            [baseTask EXCEPT !.TaskID = Str(sT2), !.TaskName = Str(<<"t", "2">>),
                             !.RequiredSkills = Str(<<"a", ",", "b">>)]>>)

\* worker tables of n rows, the k-th row drawn from rowsOf(k)
RECURSIVE NumberedTables(_, _)
NumberedTables(rowsOf, n) ==
    IF n = 0 THEN {<<>>}
    ELSE {Append(t, r) : t \in NumberedTables(rowsOf, n - 1), r \in rowsOf[n]}

NumberedTablesUpTo(rowsOf, n) ==
    UNION {{Table(r) : r \in NumberedTables(rowsOf, k)} : k \in 0..n}

\* the scenario of the specification: one client of priority 5 requesting
\* T1, one task T1 requiring python, two python workers with three slots and
\* qualification level 1, every weight 5
InitScenario ==
    \E n1 \in {Str(sBob), Str(sW1), Str(sW2)}, n2 \in {Str(sAnn), Str(sW1), Str(sW2)} :
        Mounted(Table(<<baseClient>>),
                Table(<<WorkerNumbered(1, n1, sPython, Str(sSlots123), <<"1">>),
                        WorkerNumbered(2, n2, sPython, Str(sSlots123), <<"1">>)>>),
                Table(<<[baseTask EXCEPT !.RequiredSkills = Str(sPython)]>>),
                DefaultWeights)

ClientAsking(priority, requested) ==
    [baseClient EXCEPT !.PriorityLevel = Str(priority), !.RequestedTaskIDs = Str(requested)]

\* clients asking for one task, two tasks, one task twice, a task that does
\* not exist; workers named by a person's name or by a worker ID
InitRequests ==
    \E c \in TablesUpTo({ClientAsking(<<"5">>, sT1), ClientAsking(<<"1">>, sT1T2),
                        ClientAsking(<<"5">>, sT1T1), ClientAsking(<<"1">>, sT9)},
                       MaxScoreClients),
       w \in NumberedTablesUpTo(
                [k \in 1..MaxScoreWorkers |->
                    {WorkerNumbered(k, Str(sBob), <<"a">>, Str(sSlots123), <<"1">>),
                     WorkerNumbered(k, Str(sW1), <<"a", ",", "b">>, Str(sSlots123), <<"1">>),
                     WorkerNumbered(k, Str(sW2), <<"a">>, Str(sSlots123), <<"2">>)}],
                MaxScoreWorkers),
       wt \in {DefaultWeights, SkewedWeights} :
        Mounted(c, w, TwoTasks, wt)

\* more candidates than the preview shows: every client requests both tasks
\* and each of four workers qualifies for both
InitMany ==
    \E c \in UNION {[1..n -> {[baseClient EXCEPT !.PriorityLevel = Str(p),
                                                 !.RequestedTaskIDs = Str(sT1T2)] :
                                 p \in {<<"1">>, <<"3">>, <<"a", "b", "c">>}}] :
                       n \in (MaxManyClients - 1)..MaxManyClients},
       named \in BOOLEAN,
       q \in {<<"1">>, <<"2">>, <<"0">>},
       wt \in {DefaultWeights, SkewedWeights, FulfillmentWeights} :
        Mounted(Table(c),
                Table([k \in 1..4 |->
                        WorkerNumbered(k,
                            IF named THEN Str(<<"n", CHOOSE d \in Digits : DigitVal(d) = k>>)
                            ELSE Str(<<"W", CHOOSE d \in Digits : DigitVal(d) = k>>),
                            <<"a", ",", "b">>,
                            Str(IF k = 2 THEN <<"[", "1", "]">> ELSE sSlots123),
                            IF k = 3 THEN q ELSE <<"1">>)]),
                TwoTasks, wt)

ScoreSlotCells ==
    {Str(sSlots123), Str(<<"[", "1", "]">>), Str(<<"5">>), Str(<<"{", "}">>),
     Str(<<"n", "u", "l", "l">>), Str(<<"n", "o", "t", " ", "j", "s", "o", "n">>),
     Str(<<"\"", "a", "b", "\"">>)}

\* AvailableSlots that are an array, other JSON, or no JSON
InitScoreSlots ==
    \E w \in NumberedTablesUpTo(
                [k \in 1..MaxSlotWorkers |->
                    {WorkerNumbered(k, Str(sBob), <<"a">>, s, <<"1">>) :
                        s \in ScoreSlotCells}], MaxSlotWorkers),
       wt \in {DefaultWeights, SkewedWeights} :
        Mounted(Table(<<baseClient>>), w, TwoTasks, wt)

InitScore ==
    \/ InitScenario
    \/ InitRequests
    \/ InitMany
    \/ InitScoreSlots
    \/ InitShapes

NextScore == Render

SpecScore == InitScore /\ [][NextScore]_vars

\* generateAllocationPreview has run and returned its list
Previewed == rendered /\ ~crashed

(***************************************************************************)
(* Claims about validateData                                               *)
(***************************************************************************)
\* the issues validateData returned for one cell
IssuesAt(entity, rowIndex, column) ==
    SelectSeq(validationErrors,
              LAMBDA e : e.entity = entity /\ e.rowIndex = rowIndex /\ e.column = column)

ErrorsAt(entity, rowIndex, column) ==
    SelectSeq(IssuesAt(entity, rowIndex, column), LAMBDA e : e.severity = "error")

\* the issues of one message template on one cell
MessagesAt(entity, rowIndex, column, message) ==
    SelectSeq(IssuesAt(entity, rowIndex, column), LAMBDA e : e.message = message)

SeqToSet(seq) == {seq[k] : k \in 1..Len(seq)}

Occurrences(seq, x) == Cardinality({k \in 1..Len(seq) : seq[k] = x})

AllCellsAreStrings(tb) ==
    \A i \in 1..Len(Rows(tb)) : \A col \in DOMAIN Rows(tb)[i] : IsString(Rows(tb)[i][col])

\* C1: validateData never throws, whatever the tables: null, empty, rows
\* lacking a column, cells holding malformed strings.
C1_ValidateNeverThrows ==
    (AllCellsAreStrings(clients) /\ AllCellsAreStrings(workers) /\ AllCellsAreStrings(tasks))
        => ~crashed

\* the number of candidates pushed before the n-th for the same worker row
EarlierForWorker(n) ==
    Cardinality({m \in 1..(n - 1) : allocations[m].wi = allocations[n].wi})

\* C2: in one scoring pass the fairness term of a candidate is
\* (1 / (k + 1)) * (weights.fairness / 100), k being the number of candidates
\* for the same worker pushed earlier in the pass; the second candidate of a
\* worker gets half the fairness term of the worker's first.
C2_FairnessTerm ==
    Previewed =>
        \A n \in 1..Len(allocations) :
            /\ allocations[n].fairnessScore = FairnessScore(EarlierForWorker(n), weights)
            /\ EarlierForWorker(n) = 1 =>
                 \A m \in 1..(n - 1) :
                    (allocations[m].wi = allocations[n].wi) =>
                        allocations[m].fairnessScore.v = 2 * allocations[n].fairnessScore.v

\* C3: every token of a client's RequestedTaskIDs that is no TaskID of the
\* tasks table (whatever its size) gets one unknown-reference error on that
\* client row per occurrence, and a token that is a TaskID gets none.
C3_UnknownReferences ==
    (Validated /\ clients.t = "array" /\ tasks.t = "array") =>
        \A i \in 1..Len(Rows(clients)) :
            LET tokens == SplitTags(Get(Rows(clients)[i], "RequestedTaskIDs"))
                known(u) == \E j \in 1..Len(Rows(tasks)) :
                                Get(Rows(tasks)[j], "TaskID") = Str(u)
                reported(u) ==
                    Len(SelectSeq(MessagesAt("clients", i - 1, "RequestedTaskIDs",
                                             "Unknown TaskID referenced"),
                                  LAMBDA e : e.args = <<Str(u)>>))
            IN \A u \in SeqToSet(tokens) :
                 reported(u) = IF known(u) THEN 0 ELSE Occurrences(tokens, u)

\* C4: a task gets exactly one error on RequiredSkills, listing every required
\* skill no worker has, iff some required skill is uncovered, whatever the
\* workers table contains.
C4_SkillCoverage ==
    (Validated /\ workers.t = "array" /\ tasks.t = "array") =>
        \A i \in 1..Len(Rows(tasks)) :
            LET required == SplitTags(Get(Rows(tasks)[i], "RequiredSkills"))
                covered(s) == \E j \in 1..Len(Rows(workers)) :
                    s \in SeqToSet(SplitTags(Get(Rows(workers)[j], "Skills")))
                uncovered == SelectSeq(required, LAMBDA s : ~covered(s))
                errs == ErrorsAt("tasks", i - 1, "RequiredSkills")
            IN IF uncovered = <<>> THEN errs = <<>>
               ELSE /\ Len(errs) = 1
                    /\ errs[1].args = [k \in 1..Len(uncovered) |-> Str(uncovered[k])]

\* the duplicate issues of an entity
DuplicateIssues(entity, idCol) ==
    SelectSeq(validationErrors,
              LAMBDA e : e.entity = entity /\ e.column = idCol /\ e.message = "Duplicate ID")

DuplicatesAsClaimed(entity, tb, idCol) ==
    LET dups == DuplicateIssues(entity, idCol)
        rows == Rows(tb)
    IN /\ \A i \in 1..Len(rows) :
            LET same == {j \in 1..Len(rows) : Get(rows[j], idCol) = Get(rows[i], idCol)}
                first == CHOOSE j \in same : \A k \in same : j <= k
                hits == {k \in 1..Len(dups) : dups[k].args = <<Get(rows[i], idCol)>>}
            IN /\ Cardinality(hits) = Cardinality(same) - 1
               /\ {dups[k].rowIndex : k \in hits} = {j - 1 : j \in same \ {first}}
       /\ \A k \in 1..Len(dups) : dups[k].rowIndex \in 0..(Len(rows) - 1)

\* C5: when N rows of an entity share an ID value, validateData returns exactly
\* N-1 duplicate issues for that value, one at the row index of each occurrence
\* after the first; the first occurrence is never flagged.
C5_DuplicateIDs ==
    Validated =>
        /\ DuplicatesAsClaimed("clients", clients, "ClientID")
        /\ DuplicatesAsClaimed("workers", workers, "WorkerID")
        /\ DuplicatesAsClaimed("tasks", tasks, "TaskID")

\* three client rows share one ID and two duplicate issues came back, at rows 1 and 2
C5_Witness ==
    /\ Validated
    /\ Len(Rows(clients)) = 3
    /\ \A i \in 1..3 : Get(Rows(clients)[i], "ClientID") = Str(sC1)
    /\ Len(DuplicateIssues("clients", "ClientID")) = 2

\* a positive integer literal: digits only, after trimming, and not zero
IsPositiveIntegerToken(tok) ==
    /\ Trim(tok) # <<>>
    /\ \A k \in 1..Len(Trim(tok)) : IsDigit(Trim(tok)[k])
    /\ DigitsValue(Trim(tok), 1, Len(Trim(tok)) + 1) > 0

TokenValue(tok) == DigitsValue(Trim(tok), 1, Len(Trim(tok)) + 1) * 100

\* the three-shape reference parser of the specification, as a set of phases
RefParsePhases(s) ==
    LET json == JSONParseText(s)
        dash == Split(s, "-")
        comma == Split(s, ",")
    IN IF json.ok /\ IsArray(json.v)
       THEN {json.v.e[k].n : k \in {j \in 1..Len(json.v.e) : IsPositiveNumber(json.v.e[j])}}
       ELSE IF /\ Len(dash) = 2
               /\ IsPositiveIntegerToken(dash[1])
               /\ IsPositiveIntegerToken(dash[2])
               /\ TokenValue(dash[1]) <= TokenValue(dash[2])
       THEN {ph \in TokenValue(dash[1])..TokenValue(dash[2]) : ph % 100 = 0}
       ELSE IF \A k \in 1..Len(comma) : IsPositiveIntegerToken(comma[k])
       THEN {TokenValue(comma[k]) : k \in 1..Len(comma)}
       ELSE {}

\* C6: parsePhases agrees with the three-shape reference parser on every
\* string, and validateData reports an error on PreferredPhases exactly for
\* the strings whose result is empty.
C6_ParsePhasesReference ==
    Validated =>
        \A i \in 1..Len(Rows(tasks)) :
            LET cell == Get(Rows(tasks)[i], "PreferredPhases")
            IN IsString(cell) =>
                /\ SeqToSet(parsePhases(cell)) = RefParsePhases(cell.s)
                /\ Len(ErrorsAt("tasks", i - 1, "PreferredPhases"))
                     = IF RefParsePhases(cell.s) = {} THEN 1 ELSE 0

\* the failure mode of an AvailableSlots cell, from the specification's three
\* conditions: valid JSON, an array, every element a number > 0
SlotFailure(cell) ==
    LET r == JSONParse(cell)
    IN IF ~r.ok THEN "Malformed AvailableSlots (should be JSON array)"
       ELSE IF r.v.t # "array" THEN "AvailableSlots must be a JSON array"
       ELSE IF \E k \in 1..Len(r.v.e) : ~(r.v.e[k].t = "number" /\ r.v.e[k].n > 0)
       THEN "AvailableSlots must contain only positive numbers"
       ELSE "none"

\* C7: a worker row gets at most one error on AvailableSlots, and exactly one
\* when the value is invalid, whose message tells the three failure modes apart.
C7_AvailableSlots ==
    Validated =>
        \A i \in 1..Len(Rows(workers)) :
            LET issues == IssuesAt("workers", i - 1, "AvailableSlots")
                mode == SlotFailure(Get(Rows(workers)[i], "AvailableSlots"))
            IN IF mode = "none" THEN issues = <<>>
               ELSE /\ Len(issues) = 1
                    /\ issues[1].severity = "error"
                    /\ issues[1].message = mode

\* "[1,2,-3]" got the positive-numbers message and "not json" the malformed one
C7_Witness ==
    /\ Validated
    /\ Len(Rows(workers)) = 2
    /\ Get(Rows(workers)[1], "AvailableSlots")
         = Str(<<"[", "1", ",", "2", ",", "-", "3", "]">>)
    /\ Get(Rows(workers)[2], "AvailableSlots")
         = Str(<<"n", "o", "t", " ", "j", "s", "o", "n">>)
    /\ Len(IssuesAt("workers", 0, "AvailableSlots")) = 1
    /\ IssuesAt("workers", 0, "AvailableSlots")[1].message
         = "AvailableSlots must contain only positive numbers"
    /\ Len(IssuesAt("workers", 1, "AvailableSlots")) = 1
    /\ IssuesAt("workers", 1, "AvailableSlots")[1].message
         = "Malformed AvailableSlots (should be JSON array)"

\* the number is an integer in lo..hi (hi = 0: no upper limit)
IsIntegerIn(val, lo, hi) ==
    /\ ~val.nan
    /\ val.v % 100 = 0
    /\ val.v >= lo * 100
    /\ hi = 0 \/ val.v <= hi * 100

\* C8: one error on PriorityLevel iff the value is not an integer in [1,5], on
\* Duration iff it is not an integer >= 1, on MaxLoadPerPhase iff it is not an
\* integer >= 1.
C8_NumericRanges ==
    Validated =>
        /\ \A i \in 1..Len(Rows(clients)) :
             Len(ErrorsAt("clients", i - 1, "PriorityLevel"))
               = IF IsIntegerIn(ToNumber(Get(Rows(clients)[i], "PriorityLevel")), 1, 5)
                 THEN 0 ELSE 1
        /\ \A i \in 1..Len(Rows(tasks)) :
             Len(ErrorsAt("tasks", i - 1, "Duration"))
               = IF IsIntegerIn(ToNumber(Get(Rows(tasks)[i], "Duration")), 1, 0)
                 THEN 0 ELSE 1
        /\ \A i \in 1..Len(Rows(workers)) :
             Len(ErrorsAt("workers", i - 1, "MaxLoadPerPhase"))
               = IF IsIntegerIn(ToNumber(Get(Rows(workers)[i], "MaxLoadPerPhase")), 1, 0)
                 THEN 0 ELSE 1

\* the place of the i-th enumerated candidate in a stable descending sort:
\* after every candidate of greater score and every earlier one of equal score
RankOf(i) ==
    1 + Cardinality({j \in 1..Len(allocations) :
                        \/ Gt(allocations[j].score, allocations[i].score)
                        \/ j < i /\ allocations[j].score = allocations[i].score})

\* C9: the returned list has at most 20 entries, is in non-increasing score
\* order, is the first 20 of all enumerated candidates after sorting, and
\* candidates of equal score keep their enumeration order.
C9_SortedTop20 ==
    Previewed =>
        /\ Len(allocationPreview) <= 20
        /\ Len(allocationPreview) = Min(20, Len(allocations))
        /\ \A i, j \in 1..Len(allocationPreview) :
             i < j => ~Lt(allocationPreview[i].score, allocationPreview[j].score)
        /\ \A i \in 1..Len(allocations) :
             RankOf(i) <= 20 =>
                /\ RankOf(i) <= Len(allocationPreview)
                /\ allocationPreview[RankOf(i)] = Pushed(allocations[i])

\* the number of slots of a worker: the elements of the array AvailableSlots
\* parses to, 0 when it does not parse to an array
SlotCount(workerRow) ==
    LET parsed == JSONParse(Get(workerRow, "AvailableSlots"))
    IN IF parsed.ok /\ parsed.v.t = "array" THEN Len(parsed.v.e) ELSE 0

\* the sum of the four terms as the specification states them
FourTerms(n) ==
    LET cand == allocations[n]
        client == clients.e[cand.ci]
        worker == workers.e[cand.wi]
    IN Add(Add(Add(PriorityScore(NumberOr1(Get(client, "PriorityLevel")), weights),
                   FairnessScore(EarlierForWorker(n), weights)),
               WorkloadScore(Int100(SlotCount(worker)), weights)),
           CostScore(NumberOr1(Get(worker, "QualificationLevel")), weights))

\* one client of priority 5 requesting T1, one task requiring python, two
\* python workers with slots [1,2,3] and level 1, every weight 5
IsScenario ==
    /\ clients.t = "array" /\ workers.t = "array" /\ tasks.t = "array"
    /\ clients.e = <<baseClient>>
    /\ Len(tasks.e) = 1 /\ Get(tasks.e[1], "RequiredSkills") = Str(sPython)
    /\ Len(workers.e) = 2
    /\ \A k \in 1..2 : /\ Get(workers.e[k], "Skills") = Str(sPython)
                       /\ Get(workers.e[k], "AvailableSlots") = Str(sSlots123)
                       /\ Get(workers.e[k], "QualificationLevel") = Str(<<"1">>)
    /\ weights = DefaultWeights

\* C10: every candidate's score is the sum of the priority, fairness, workload
\* and cost terms, and in the two-worker scenario exactly two candidates are
\* produced, each scoring 0.25 + 0.05 + 0.015 + 0.05 = 0.365.
C10_ScoreIsSumOfFourTerms ==
    Previewed =>
        /\ \A n \in 1..Len(allocations) : allocations[n].score = FourTerms(n)
        /\ IsScenario =>
             /\ Len(allocations) = 2
             /\ \A n \in 1..2 :
                  allocations[n].score = Number(365 * (ScoreUnit \div 1000))

\* positions of the requestedTaskFulfillment slider
FulfillmentDials == {0, 100}

\* the candidates as generateAllocationPreview pushes them
PushedAll(allocs) == [k \in 1..Len(allocs) |-> Pushed(allocs[k])]

\* the candidates a pass over the same tables enumerates with the fifth dial
\* at f
PassWith(f) ==
    Enumerate(clients, workers, tasks, [weights EXCEPT !.requestedTaskFulfillment = f])

\* the other pass enumerated what this one did, and this one's list is one
\* the other pass returns
SamePass(other) ==
    /\ other = allocations
    /\ allocationPreview \in {Slice(sorted, AllocationCap) :
                                 sorted \in SortOutcomes(PushedAll(other))}

\* C11: the requestedTaskFulfillment weight has no influence on scoring: a
\* second pass over the same tables, with a weight vector that differs only in
\* requestedTaskFulfillment, enumerates the same candidates with the same
\* scores and reasons in the same order, and returns the same list.
C11_FulfillmentUnused ==
    (Previewed /\ clients.t = "array" /\ workers.t = "array" /\ tasks.t = "array") =>
        \A f \in FulfillmentDials : SamePass(PassWith(f))

\* a pass that returned several candidates with the fifth dial off its
\* initial position
C11_Witness ==
    /\ Previewed
    /\ Len(allocationPreview) >= 2
    /\ weights.requestedTaskFulfillment = 80
    /\ \E n \in 1..Len(allocations) : allocations[n].currentLoad > 0

(***************************************************************************)
(* JavaScript strings and values used by the AI service and the page       *)
(***************************************************************************)
DigitChars == <<"0", "1", "2", "3", "4", "5", "6", "7", "8", "9">>

UpperCase == <<"A", "B", "C", "D", "E", "F", "G", "H", "I", "J", "K", "L", "M", "N", "O", "P", "Q", "R", "S", "T", "U", "V", "W", "X", "Y", "Z">>
LowerCase == <<"a", "b", "c", "d", "e", "f", "g", "h", "i", "j", "k", "l", "m", "n", "o", "p", "q", "r", "s", "t", "u", "v", "w", "x", "y", "z">>

\* ch.toLowerCase(), over the ASCII letters
LowerChar(ch) ==
    IF \E k \in 1..Len(UpperCase) : UpperCase[k] = ch
    THEN LowerCase[CHOOSE k \in 1..Len(UpperCase) : UpperCase[k] = ch]
    ELSE ch

\* s.toLowerCase()
ToLowerCase(s) == [k \in 1..Len(s) |-> LowerChar(s[k])]

\* s.indexOf(lit, from), one-based; 0 when lit does not occur
RECURSIVE IndexOfFrom(_, _, _)
IndexOfFrom(s, lit, from) ==
    IF from + Len(lit) - 1 > Len(s) THEN 0
    ELSE IF Matches(s, from, lit) THEN from
    ELSE IndexOfFrom(s, lit, from + 1)

\* s.lastIndexOf(lit), one-based; 0 when lit does not occur
RECURSIVE LastIndexOfFrom(_, _, _)
LastIndexOfFrom(s, lit, from) ==
    IF from < 1 THEN 0
    ELSE IF Matches(s, from, lit) THEN from
    ELSE LastIndexOfFrom(s, lit, from - 1)

\* s.includes(lit)
IncludesText(s, lit) == lit = <<>> \/ IndexOfFrom(s, lit, 1) > 0

\* /first.*second/i.test(s), the two literals in lower case
TestThen(s, first, second) ==
    LET i == IndexOfFrom(ToLowerCase(s), first, 1)
    IN i > 0 /\ IndexOfFrom(ToLowerCase(s), second, i + Len(first)) > 0

\* s.startsWith(lit)
StartsWith(s, lit) == Matches(s, 1, lit)

\* JavaScript truthiness of a value
IsTruthy(val) ==
    CASE val.t = "string" -> val.s # <<>>
      [] val.t = "number" -> val.n # 0
      [] val.t = "boolean" -> val.b
      [] val.t \in {"array", "object"} -> TRUE
      [] OTHER -> FALSE

\* a || b
OrElse(a, b) == IF IsTruthy(a) THEN a ELSE b

\* the decimal digits of a non-negative integer
RECURSIVE DigitsOf(_)
DigitsOf(n) ==
    IF n < 10 THEN <<DigitChars[n + 1]>> ELSE Append(DigitsOf(n \div 10), DigitChars[(n % 10) + 1])

\* String(n) for a number of hundredths n
NumberToString(n) ==
    LET mag == IF n < 0 THEN 0 - n ELSE n
        frac == mag % 100
        whole == DigitsOf(mag \div 100)
        tail == IF frac = 0 THEN <<>>
                ELSE IF frac % 10 = 0 THEN <<".">> \o DigitsOf(frac \div 10)
                ELSE <<".", DigitChars[(frac \div 10) + 1], DigitChars[(frac % 10) + 1]>>
    IN (IF n < 0 THEN <<"-">> ELSE <<>>) \o whole \o tail

\* String(cell) of a cell that is a string, a number or absent
StringOf(c) ==
    CASE c.t = "string" -> c.s
      [] c.t = "number" -> NumberToString(c.n)
      [] c.t = "undefined" -> <<"u", "n", "d", "e", "f", "i", "n", "e", "d">>
      [] c.t = "null" -> <<"n", "u", "l", "l">>
      [] c.t = "boolean" -> (IF c.b THEN <<"t", "r", "u", "e">> ELSE <<"f", "a", "l", "s", "e">>)
      [] OTHER -> <<"[", "o", "b", "j", "e", "c", "t", " ", "O", "b", "j", "e", "c", "t", "]">>

\* reading a member of null or undefined throws a TypeError
MemberThrows(val) == val.t \in {"null", "undefined"}

\* the last member of an object with the given key, as JSON.parse keeps it
LastMember(ms, name) ==
    LET keys == {k \in 1..Len(ms) : ms[k].k = name}
    IN IF keys = {} THEN Undefined
       ELSE ms[CHOOSE k \in keys : \A j \in keys : j <= k].val

\* val[name] of a value that is not null: a member of an object, the length
\* of an array or a string, undefined otherwise
Member(val, name) ==
    CASE val.t = "object" -> LastMember(val.m, name)
      [] val.t = "array" ->
            (IF name = sLength THEN NumCell(100 * Len(val.e)) ELSE Undefined)
      [] val.t = "string" ->
            (IF name = sLength THEN NumCell(100 * Len(val.s)) ELSE Undefined)
      [] OTHER -> Undefined

\* an object literal { k1: v1, ... }
Literal(pairs) == Obj([i \in 1..Len(pairs) |-> [k |-> pairs[i][1], val |-> pairs[i][2]]])

sType == <<"t", "y", "p", "e">>
sDescription == <<"d", "e", "s", "c", "r", "i", "p", "t", "i", "o", "n">>
sTasksKey == <<"t", "a", "s", "k", "s">>
sParameters == <<"p", "a", "r", "a", "m", "e", "t", "e", "r", "s">>
sWorkerKey == <<"w", "o", "r", "k", "e", "r">>
sReason == <<"r", "e", "a", "s", "o", "n">>
sFreeForm == <<"f", "r", "e", "e", "F", "o", "r", "m">>
sLoadLimit == <<"l", "o", "a", "d", "L", "i", "m", "i", "t">>
sInfo == <<"i", "n", "f", "o">>

(***************************************************************************)
(* The AI service (aiService.ts): each function either answers locally or  *)
(* awaits callOpenAI once and turns what it settles with into its result   *)
(***************************************************************************)
\* apiKey.startsWith('sk-') && apiKey.length > 20
validateApiKey(key) == StartsWith(key, <<"s", "k", "-">>) /\ Len(key) > 20

\* what the fetch of callOpenAI settles with: a rejection, a response that is
\* not ok, an ok response whose body is not JSON or has no choices, an ok
\* response with a message content
Rejected == [kind |-> "rejected"]
NotOk(status) == [kind |-> "status", status |-> status]
BadBody == [kind |-> "body"]
NoChoices == [kind |-> "nochoices"]
Content(text) == [kind |-> "content", text |-> text]

Threw(message) == [threw |-> TRUE, message |-> message, text |-> <<>>]
Returned(text) == [threw |-> FALSE, message |-> "", text |-> text]

\* callOpenAI after its fetch settled: the text it returns or the Error it
\* throws
callOpenAI(response) ==
    CASE response.kind = "rejected" -> Threw("Failed to fetch")
      [] response.kind = "status" ->
            (CASE response.status = 401 ->
                    Threw("Invalid API key. Please check your OpenAI API key and try again.")
               [] response.status = 429 ->
                    Threw("Rate limit exceeded. Please wait a moment and try again.")
               [] response.status = 400 ->
                    Threw("Invalid request. Please check your input and try again.")
               [] response.status = 403 ->
                    Threw("Access denied. Please check your OpenAI account status and billing.")
               [] response.status >= 500 ->
                    Threw("OpenAI service is temporarily unavailable. Please try again later.")
               [] OTHER -> Threw("OpenAI API error"))
      [] response.kind = "body" -> Threw("SyntaxError")
      [] response.kind = "nochoices" -> Threw("TypeError")
      [] response.kind = "content" -> Returned(response.text)

\* callOpenAI with a key of the wrong format: it throws before any fetch
InvalidKeyFormat == Threw("Invalid API key format. Please check your OpenAI API key.")

\* nlRule.match(/T\d+/g) || []: the matches from index i on
RECURSIVE MatchTaskIDs(_, _)
MatchTaskIDs(s, i) ==
    IF i > Len(s) THEN <<>>
    ELSE IF s[i] = "T" /\ SkipDigits(s, i + 1) > i + 1
         THEN <<Str(SubSeq(s, i, SkipDigits(s, i + 1) - 1))>>
                \o MatchTaskIDs(s, SkipDigits(s, i + 1))
         ELSE MatchTaskIDs(s, i + 1)

\* { type: 'freeForm', description: nlRule }
FreeFormRule(nlRule) == Literal(<<<<sType, Str(sFreeForm)>>, <<sDescription, Str(nlRule)>>>>)

\* parseRule without a key: simple pattern matching
parseRuleLocal(nlRule) ==
    IF IncludesText(ToLowerCase(nlRule), <<"r", "u", "n", " ", "t", "o", "g", "e", "t", "h", "e", "r">>)
    THEN Literal(<<<<sType, Str(sCoRun)>>, <<sTasksKey, Arr(MatchTaskIDs(nlRule, 1))>>>>)
    ELSE FreeFormRule(nlRule)

\* the text parsed, or the fallback value when it does not parse
ParsedOr(r, fallback) == IF r.ok THEN r.v ELSE fallback

\* parseRule with a key, callOpenAI having returned or thrown `out`
parseRuleAI(nlRule, out) ==
    IF out.threw THEN FreeFormRule(nlRule)
    ELSE ParsedOr(JSONParseText(out.text), FreeFormRule(nlRule))

\* String(row.a || row.b || '')
NameOrID(row, a, b) == StringOf(OrElse(OrElse(Get(row, a), Get(row, b)), Str(<<>>)))

\* the task IDs a client row requests: split(',').map(trim).filter(Boolean)
\* of a string cell, nothing for any other cell
RequestedOf(cell) ==
    IF IsString(cell) THEN FilterNonEmpty(MapTrim(Split(cell.s, ","))) ELSE <<>>

StrsOf(ss) == [i \in 1..Len(ss) |-> Str(ss[i])]

\* the co-run suggestion of a client row, if it requests several tasks
CoRunSuggestion(row, requested) ==
    IF Len(requested) > 1
    THEN <<Literal(<<<<sType, Str(sCoRun)>>,
                     <<sTasksKey, Arr(StrsOf(requested))>>,
                     <<sReason, Str(<<"C", "l", "i", "e", "n", "t", " ">> \o NameOrID(row, "ClientName", "ClientID")
                                     \o <<" ", "a", "l", "w", "a", "y", "s", " ", "r", "e", "q", "u", "e", "s", "t", "s", " ", "t", "h", "e", "s", "e", " ", "t", "a", "s", "k", "s", " ", "t", "o", "g", "e", "t", "h", "e", "r", ".">>)>>>>)>>
    ELSE <<>>

RECURSIVE CoRunSuggestions(_, _)
CoRunSuggestions(rows, n) ==
    IF n = 0 THEN <<>>
    ELSE CoRunSuggestions(rows, n - 1)
           \o CoRunSuggestion(rows[n], RequestedOf(Get(rows[n], "RequestedTaskIDs")))

\* the load-limit suggestion of a worker row, `slots` being what its
\* AvailableSlots parsed to: none when the parse threw or gave no array
LoadLimitSuggestion(row, slots) ==
    IF /\ slots.ok
       /\ IsArray(slots.v)
       /\ Gt(ToNumber(Get(row, "MaxLoadPerPhase")), Int100(Len(slots.v.e)))
    THEN <<Literal(<<<<sType, Str(sLoadLimit)>>,
                     <<sWorkerKey, Str(NameOrID(row, "WorkerName", "WorkerID"))>>,
                     <<sReason, Str(<<"W", "o", "r", "k", "e", "r", " ">> \o NameOrID(row, "WorkerName", "WorkerID")
                                     \o <<" ", "i", "s", " ", "o", "f", "t", "e", "n", " ", "o", "v", "e", "r", "l", "o", "a", "d", "e", "d", ".">>)>>>>)>>
    ELSE <<>>

\* let slots = worker.AvailableSlots; if (typeof slots === 'string') slots =
\* JSON.parse(slots)
SlotsOf(cell) == IF IsString(cell) THEN JSONParseText(cell.s) ELSE Ok(cell, 0)

RECURSIVE LoadLimitSuggestions(_, _)
LoadLimitSuggestions(rows, n) ==
    IF n = 0 THEN <<>>
    ELSE LoadLimitSuggestions(rows, n - 1)
           \o LoadLimitSuggestion(rows[n], SlotsOf(Get(rows[n], "AvailableSlots")))

InfoSuggestion(reason) == Literal(<<<<sType, Str(sInfo)>>, <<sReason, Str(reason)>>>>)

\* if (suggestions.length === 0) suggestions.push({ type: 'info', ... })
OrInfo(suggestions) ==
    IF Len(suggestions) = 0
    THEN <<InfoSuggestion(<<"N", "o", " ", "r", "u", "l", "e", " ", "s", "u", "g", "g", "e", "s", "t", "i", "o", "n", "s", " ", "f", "o", "u", "n", "d", " ", "f", "o", "r", " ", "t", "h", "e", " ", "c", "u", "r", "r", "e", "n", "t", " ", "d", "a", "t", "a", ".">>)>>
    ELSE suggestions

\* the suggestions the rule-based fallback finds in the tables
Findings(c, w, tk) ==
    (IF c.t = "array" /\ tk.t = "array" THEN CoRunSuggestions(c.e, Len(c.e)) ELSE <<>>)
      \o (IF w.t = "array" THEN LoadLimitSuggestions(w.e, Len(w.e)) ELSE <<>>)

\* aiRuleRecommendations without a key
aiRuleRecommendationsLocal(c, w, tk) == Arr(OrInfo(Findings(c, w, tk)))

\* aiRuleRecommendations with a key, callOpenAI having returned or thrown `out`
aiRuleRecommendationsAI(out) ==
    IF out.threw
    THEN Arr(<<InfoSuggestion(<<"U", "n", "a", "b", "l", "e", " ", "t", "o", " ", "g", "e", "n", "e", "r", "a", "t", "e", " ", "A", "I", " ", "r", "u", "l", "e", " ", "s", "u", "g", "g", "e", "s", "t", "i", "o", "n", "s", " ", "a", "t", " ", "t", "h", "i", "s", " ", "t", "i", "m", "e", ".">>)>>)
    ELSE ParsedOr(JSONParseText(out.text),
                  Arr(<<InfoSuggestion(
                          <<"U", "n", "a", "b", "l", "e", " ", "t", "o", " ", "g", "e", "n", "e", "r", "a", "t", "e", " ", "A", "I", " ", "r", "u", "l", "e", " ", "s", "u", "g", "g", "e", "s", "t", "i", "o", "n", "s", " ", "a", "t", " ", "t", "h", "i", "s", " ", "t", "i", "m", "e", ".">>)>>))

(***************************************************************************)
(* The page (page.tsx): the rule builder and the weights                   *)
(*                                                                         *)
(* A handler that awaits the AI service runs up to its await in one step;  *)
(* when callOpenAI throws before its fetch (a key of the wrong format) the *)
(* handler runs to its end in that step, otherwise it is suspended in      *)
(* inFlight with what its closure captured, and a second step runs the     *)
(* rest when the fetch settles. new Date() is an input of the step.        *)
(***************************************************************************)
MaxRules == 2
MaxTimers == 1
MaxInFlight == 1
\* the handlers in flight once an Apply button, which is never disabled, is
\* clicked while another handler is awaiting its response
MaxOverlap == 2
\* the doFilter calls that may be suspended at once
MaxFilterRuns == 2

\* the instants new Date() reads; no condition of the code depends on them
Timestamps == {1}

\* new Date().toISOString()
ISOString(at) == [t |-> "string", iso |-> at]

\* the options of the rule type select
RuleKinds ==
    {sCoRun, <<"s", "l", "o", "t", "R", "e", "s", "t", "r", "i", "c", "t", "i", "o", "n">>, sLoadLimit, <<"p", "h", "a", "s", "e", "W", "i", "n", "d", "o", "w">>, <<"p", "a", "t", "t", "e", "r", "n", "M", "a", "t", "c", "h">>,
     <<"p", "r", "e", "c", "e", "d", "e", "n", "c", "e", "O", "v", "e", "r", "r", "i", "d", "e">>, sFreeForm}

\* setAiError(text)
Message(text) == [t |-> "string", message |-> text]

\* setLastModified({ [key]: new Date() })
Stamp(key, at) == {<<key, at>>}

\* { type: ruleType, created: ..., description | input }
NewRule(type, input, description, at) ==
    IF type = sFreeForm
    THEN [type |-> Str(type), created |-> ISOString(at), description |-> Str(description)]
    ELSE [type |-> Str(type), created |-> ISOString(at), input |-> Str(input)]

\* a list that puts the new rule in front
AddRuleFirst(prev, rule) == <<rule>> \o prev

\* [...prev, newRule]
AddRule(prev, rule) == Append(prev, rule)

\* a removal that drops every rule up to the index
RemoveRuleUpTo(prev, idx) == SubSeq(prev, idx + 2, Len(prev))

\* prev.filter((_, i) => i !== idx), idx counting from 0
RemoveRule(prev, idx) ==
    SubSeq(prev, 1, Min(idx, Len(prev))) \o SubSeq(prev, idx + 2, Len(prev))

\* a replacement that resets the other dials
SetWeightOnly(prev, key, value) == [DefaultWeights EXCEPT ![key] = value]

\* { ...prev, [key]: value }
SetWeight(prev, key, value) ==
    [k \in DOMAIN prev \cup {key} |-> IF k = key THEN value ELSE prev[k]]

\* the handlers suspended at an await whose continuation appends a rule
Appending(ops) == Cardinality({k \in 1..Len(ops) : ops[k].handler = "handleParseNaturalLanguageRule"})

\* inFlight without its i-th handler
Resumed(ops, i) == SubSeq(ops, 1, i - 1) \o SubSeq(ops, i + 1, Len(ops))

\* the key input, and the effect on [apiKey] that clears the message
setApiKey(key) ==
    /\ ~crashed
    /\ key # apiKey
    /\ apiKey' = key
    /\ aiError' = Null
    /\ UNCHANGED <<tableVars, weights, validationErrors, validationPending, crashed,
                   previewVars, ruleVars, modify, dataCorrections, lastModified,
                   isLoadingAI, timers, inFlight, uncaught, call, viewVars>>

setRuleType(kind) ==
    /\ ~crashed
    /\ ruleType' = kind
    /\ UNCHANGED <<tableVars, weights, validationErrors, validationPending, crashed,
                   previewVars, rules, ruleInput, freeFormInput, ruleSuggestions,
                   assistVars, call, viewVars>>

setRuleInput(text) ==
    /\ ~crashed
    /\ ruleType # sFreeForm
    /\ ruleInput' = text
    /\ UNCHANGED <<tableVars, weights, validationErrors, validationPending, crashed,
                   previewVars, rules, ruleType, freeFormInput, ruleSuggestions,
                   assistVars, call, viewVars>>

setFreeFormInput(text) ==
    /\ ~crashed
    /\ ruleType = sFreeForm
    /\ freeFormInput' = text
    /\ UNCHANGED <<tableVars, weights, validationErrors, validationPending, crashed,
                   previewVars, rules, ruleType, ruleInput, ruleSuggestions,
                   assistVars, call, viewVars>>

handleAddRule(at, later) ==
    /\ ~crashed
    /\ Len(rules) + Appending(inFlight) < MaxRules
    /\ rules' = AddRule(rules, NewRule(ruleType, ruleInput, freeFormInput, at))
    /\ ruleInput' = <<>>
    /\ freeFormInput' = <<>>
    /\ lastModified' = Stamp("rules", later)
    /\ UNCHANGED <<tableVars, weights, validationErrors, validationPending, crashed,
                   previewVars, ruleType, ruleSuggestions, apiKey, modify,
                   dataCorrections, isLoadingAI, aiError, timers, inFlight, uncaught,
                   call, viewVars>>

handleRemoveRule(idx, at) ==
    /\ ~crashed
    /\ idx \in 0..(Len(rules) - 1)
    /\ rules' = RemoveRule(rules, idx)
    /\ lastModified' = Stamp("rules", at)
    /\ UNCHANGED <<tableVars, weights, validationErrors, validationPending, crashed,
                   previewVars, ruleType, ruleInput, freeFormInput, ruleSuggestions,
                   apiKey, modify, dataCorrections, isLoadingAI, aiError, timers,
                   inFlight, uncaught, call, viewVars>>

handleWeightChange(key, value, at) ==
    /\ ~crashed
    /\ weights' = SetWeight(weights, key, value)
    /\ lastModified' = Stamp("weights", at)
    /\ UNCHANGED <<tableVars, validationErrors, validationPending, crashed, previewVars,
                   ruleVars, apiKey, modify, dataCorrections, isLoadingAI, aiError,
                   timers, inFlight, uncaught, call, viewVars>>

\* s => ({ type: s.type, description: s.reason, tasks: s.tasks || [],
\* worker: s.worker || '' })
SuggestionRow(s) ==
    [type |-> Member(s, sType), description |-> Member(s, sReason),
     tasks |-> OrElse(Member(s, sTasksKey), Arr(<<>>)),
     worker |-> OrElse(Member(s, sWorkerKey), Str(<<>>))]

\* suggestions.map(...) throws: suggestions has no map, or an element is null
SuggestionsThrow(suggestions) ==
    \/ ~IsArray(suggestions)
    \/ \E k \in 1..Len(suggestions.e) : MemberThrows(suggestions.e[k])

\* handleGetRuleSuggestions from the value its await produced to its end
SuggestionsArrived(suggestions, at, shown) ==
    /\ IF SuggestionsThrow(suggestions)
       THEN /\ aiError' = Message("TypeError")
            /\ UNCHANGED <<ruleSuggestions, lastModified>>
       ELSE /\ ruleSuggestions' = [k \in 1..Len(suggestions.e) |->
                                      SuggestionRow(suggestions.e[k])]
            /\ lastModified' = Stamp("ruleSuggestions", at)
            /\ aiError' = shown
    /\ isLoadingAI' = FALSE

\* the button is disabled without a key, without any table, and while loading
handleGetRuleSuggestions(at) ==
    /\ ~crashed
    /\ apiKey # <<>>
    /\ clients # Null \/ workers # Null \/ tasks # Null
    /\ ~isLoadingAI
    /\ IF validateApiKey(apiKey)
       THEN /\ Len(inFlight) < MaxInFlight
            /\ inFlight' = Append(inFlight, [handler |-> "handleGetRuleSuggestions",
                                             requests |-> 1])
            /\ isLoadingAI' = TRUE
            /\ aiError' = Null
            /\ UNCHANGED <<ruleSuggestions, lastModified>>
       ELSE /\ SuggestionsArrived(aiRuleRecommendationsAI(InvalidKeyFormat), at, Null)
            /\ UNCHANGED inFlight
    /\ UNCHANGED <<tableVars, weights, validationErrors, validationPending, crashed,
                   previewVars, rules, ruleType, ruleInput, freeFormInput, apiKey,
                   modify, dataCorrections, timers, uncaught, call, viewVars>>

\* the fetch of a suspended handleGetRuleSuggestions settles
RuleSuggestionsSettled(i, response, at) ==
    /\ ~crashed
    /\ i \in 1..Len(inFlight)
    /\ inFlight[i].handler = "handleGetRuleSuggestions"
    /\ inFlight' = Resumed(inFlight, i)
    /\ SuggestionsArrived(aiRuleRecommendationsAI(callOpenAI(response)), at, aiError)
    /\ UNCHANGED <<tableVars, weights, validationErrors, validationPending, crashed,
                   previewVars, rules, ruleType, ruleInput, freeFormInput, apiKey,
                   modify, dataCorrections, timers, uncaught, call, viewVars>>

\* setRuleSuggestions(s => s.filter(r => r !== suggestion)): the suggestion
\* clicked is the idx-th object of the list
handleAddSuggestedRule(idx, at) ==
    /\ ~crashed
    /\ idx \in 1..Len(ruleSuggestions)
    /\ Len(rules) + Appending(inFlight) < MaxRules
    /\ rules' = AddRule(rules, ruleSuggestions[idx])
    /\ ruleSuggestions' = Resumed(ruleSuggestions, idx)
    /\ lastModified' = Stamp("rules", at)
    /\ UNCHANGED <<tableVars, weights, validationErrors, validationPending, crashed,
                   previewVars, ruleType, ruleInput, freeFormInput, apiKey, modify,
                   dataCorrections, isLoadingAI, aiError, timers, inFlight, uncaught,
                   call, viewVars>>

\* the rule handleParseNaturalLanguageRule builds from what parseRule returned
ParsedRule(parsedRule, typed, at) ==
    [type |-> Member(parsedRule, sType),
     description |-> OrElse(Member(parsedRule, sDescription), Str(typed)),
     tasks |-> OrElse(Member(parsedRule, sTasksKey), Arr(<<>>)),
     parameters |-> OrElse(Member(parsedRule, sParameters), Obj(<<>>)),
     created |-> ISOString(at),
     aiParsed |-> Bool(TRUE)]

\* handleParseNaturalLanguageRule from the value its await produced to its
\* end, `typed` being the freeFormInput its closure captured
RuleParsed(parsedRule, typed, at, later) ==
    /\ IF MemberThrows(parsedRule)
       THEN /\ aiError' = Message("TypeError")
            /\ UNCHANGED <<rules, freeFormInput, lastModified, timers>>
       ELSE /\ rules' = AddRule(rules, ParsedRule(parsedRule, typed, at))
            /\ freeFormInput' = <<>>
            /\ lastModified' = Stamp("rules", later)
            /\ aiError' = [t |-> "string", message |-> "Rule parsed successfully! Type: ",
                           type |-> Member(parsedRule, sType)]
            /\ timers' = timers + 1
    /\ isLoadingAI' = FALSE

\* the button is shown for the free-form kind and disabled without a key,
\* with a blank input, and while loading
handleParseNaturalLanguageRule(at, later) ==
    /\ ~crashed
    /\ ruleType = sFreeForm
    /\ apiKey # <<>>
    /\ Trim(freeFormInput) # <<>>
    /\ ~isLoadingAI
    /\ Len(rules) + Appending(inFlight) < MaxRules
    /\ timers + Appending(inFlight) < MaxTimers
    /\ IF validateApiKey(apiKey)
       THEN /\ Len(inFlight) < MaxInFlight
            /\ inFlight' = Append(inFlight, [handler |-> "handleParseNaturalLanguageRule",
                                             requests |-> 1,
                                             freeFormInput |-> freeFormInput])
            /\ isLoadingAI' = TRUE
            /\ aiError' = Null
            /\ UNCHANGED <<rules, freeFormInput, lastModified, timers>>
       ELSE /\ RuleParsed(parseRuleAI(freeFormInput, InvalidKeyFormat), freeFormInput,
                          at, later)
            /\ UNCHANGED inFlight
    /\ UNCHANGED <<tableVars, weights, validationErrors, validationPending, crashed,
                   previewVars, ruleType, ruleInput, ruleSuggestions, apiKey, modify,
                   dataCorrections, uncaught, call, viewVars>>

\* the fetch of a suspended handleParseNaturalLanguageRule settles
ParseRuleSettled(i, response, at, later) ==
    /\ ~crashed
    /\ i \in 1..Len(inFlight)
    /\ inFlight[i].handler = "handleParseNaturalLanguageRule"
    /\ inFlight' = Resumed(inFlight, i)
    /\ RuleParsed(parseRuleAI(inFlight[i].freeFormInput, callOpenAI(response)),
                  inFlight[i].freeFormInput, at, later)
    /\ UNCHANGED <<tableVars, weights, validationErrors, validationPending, crashed,
                   previewVars, ruleType, ruleInput, ruleSuggestions, apiKey, modify,
                   dataCorrections, uncaught, call, viewVars>>

\* setTimeout(() => setAiError(null), 3000) fires
MessageTimeout ==
    /\ ~crashed
    /\ timers > 0
    /\ timers' = timers - 1
    /\ aiError' = Null
    /\ UNCHANGED <<tableVars, weights, validationErrors, validationPending, crashed,
                   previewVars, ruleVars, apiKey, modify, dataCorrections, lastModified,
                   isLoadingAI, inFlight, uncaught, call, viewVars>>

(***************************************************************************)
(* SpecRules: the rule builder, from an empty rule list                    *)
(***************************************************************************)
sKey == <<"s", "k", "-", "0", "1", "2", "3", "4", "5", "6", "7", "8", "9", "a", "b", "c", "d", "e", "f", "g", "h", "i", "j">>
sBadKey == <<"m", "y", " ", "k", "e", "y">>
sT1AndT2 == <<"T", "1", " ", "a", "n", "d", " ", "T", "2", " ", "r", "u", "n", " ", "t", "o", "g", "e", "t", "h", "e", "r">>

\* the keys the user types: none, one of the wrong format, a well-formed one
ApiKeys == {<<>>, sBadKey, sKey}

\* what the user types into the two rule inputs
RuleInputs == {<<>>, sT1T2}
FreeFormInputs == {<<>>, sT1AndT2}

\* the kinds the user selects
SelectedKinds == {sCoRun, sFreeForm}

\* what the model answers to the rule suggestion prompt
SuggestionAnswers ==
    {Content(<<"[", "{", "\"", "t", "y", "p", "e", "\"", ":", "\"", "c", "o", "R", "u", "n", "\"", ",", "\"", "t", "a", "s", "k", "s", "\"", ":", "[", "\"", "T", "1", "\"", ",", "\"", "T", "2", "\"", "]", ",", "\"", "r", "e", "a", "s", "o", "n", "\"", ":", "\"", "r", "e", "q", "u", "e", "s", "t", "e", "d", " ", "t", "o", "g", "e", "t", "h", "e", "r", "\"", "}", "]">>),
     Content(<<"{", "\"", "t", "y", "p", "e", "\"", ":", "\"", "c", "o", "R", "u", "n", "\"", "}">>),
     Content(<<"[", "n", "u", "l", "l", "]">>)}

\* what the model answers to the rule parsing prompt
ParseAnswers ==
    {Content(<<"{", "\"", "t", "y", "p", "e", "\"", ":", "\"", "l", "o", "a", "d", "L", "i", "m", "i", "t", "\"", ",", "\"", "d", "e", "s", "c", "r", "i", "p", "t", "i", "o", "n", "\"", ":", "\"", "a", "t", " ", "m", "o", "s", "t", " ", "2", "\"", ",", "\"", "p", "a", "r", "a", "m", "e", "t", "e", "r", "s", "\"", ":", "{", "\"", "m", "a", "x", "S", "l", "o", "t", "s", "\"", ":", "2", "}", "}">>),
     Content(<<"{", "\"", "t", "y", "p", "e", "\"", ":", "\"", "b", "a", "n", "a", "n", "a", "\"", "}">>),
     Content(<<"n", "u", "l", "l">>),
     Content(<<"n", "o", "t", " ", "j", "s", "o", "n">>)}

\* fetches that reject or are not ok
Failures == {Rejected, NotOk(401), NotOk(500), BadBody, NoChoices}

InitRules ==
    /\ Mounted(Table(<<baseClient>>), Table(<<baseWorker>>), Table(<<baseTask>>),
               DefaultWeights)

NextRules ==
    \/ \E key \in ApiKeys : setApiKey(key)
    \/ \E kind \in SelectedKinds : setRuleType(kind)
    \/ \E text \in RuleInputs : setRuleInput(text)
    \/ \E text \in FreeFormInputs : setFreeFormInput(text)
    \/ \E at, later \in Timestamps : handleAddRule(at, later)
    \/ \E idx \in 0..(MaxRules - 1), at \in Timestamps : handleRemoveRule(idx, at)
    \/ \E at \in Timestamps : handleGetRuleSuggestions(at)
    \/ \E i \in 1..MaxInFlight, response \in SuggestionAnswers \cup Failures,
          at \in Timestamps : RuleSuggestionsSettled(i, response, at)
    \/ \E idx \in 1..2, at \in Timestamps : handleAddSuggestedRule(idx, at)
    \/ \E at, later \in Timestamps : handleParseNaturalLanguageRule(at, later)
    \/ \E i \in 1..MaxInFlight, response \in ParseAnswers \cup Failures,
          at, later \in Timestamps : ParseRuleSettled(i, response, at, later)
    \/ MessageTimeout

SpecRules == InitRules /\ [][NextRules]_vars

(***************************************************************************)
(* SpecRuleList: the four operations on the rule list, applied to rule     *)
(* lists, suggestions and a suspended parse the builder can hold           *)
(***************************************************************************)
MaxListed == 3

\* rules the builder holds after a manual add, a suggested add, a parsed add
RuleSamples ==
    {NewRule(sCoRun, sT1T2, <<>>, 1),
     SuggestionRow(InfoSuggestion(<<"N", "o", " ", "r", "u", "l", "e", " ", "s", "u", "g", "g", "e", "s", "t", "i", "o", "n", "s", " ", "f", "o", "u", "n", "d", " ", "f", "o", "r", " ", "t", "h", "e", " ", "c", "u", "r", "r", "e", "n", "t", " ", "d", "a", "t", "a", ".">>)),
     ParsedRule(FreeFormRule(sT1AndT2), sT1AndT2, 1)}

SuggestionSamples ==
    {<<>>,
     <<SuggestionRow(InfoSuggestion(<<"N", "o", " ", "r", "u", "l", "e", " ", "s", "u", "g", "g", "e", "s", "t", "i", "o", "n", "s", " ", "f", "o", "u", "n", "d", " ", "f", "o", "r", " ", "t", "h", "e", " ", "c", "u", "r", "r", "e", "n", "t", " ", "d", "a", "t", "a", ".">>)),
       SuggestionRow(Literal(<<<<sType, Str(sCoRun)>>,
                               <<sTasksKey, Arr(<<Str(sT1), Str(sT2)>>)>>,
                               <<sReason, Str(<<"r", "e", "q", "u", "e", "s", "t", "e", "d", " ", "t", "o", "g", "e", "t", "h", "e", "r">>)>>>>))>>}

\* nothing suspended, or a parse of the typed rule
ParseSamples ==
    {<<>>, <<[handler |-> "handleParseNaturalLanguageRule", requests |-> 1,
              freeFormInput |-> sT1AndT2]>>}

InitRuleList ==
    /\ TablesMounted(Table(<<baseClient>>), Table(<<baseWorker>>), Table(<<baseTask>>),
                     DefaultWeights)
    /\ apiKey = sKey
    /\ rules \in StringsUpTo(RuleSamples, MaxListed)
    /\ \/ ruleType = sCoRun /\ ruleInput = sT1T2 /\ freeFormInput = <<>>
       \/ ruleType = sFreeForm /\ ruleInput = <<>> /\ freeFormInput = sT1AndT2
    /\ ruleSuggestions \in SuggestionSamples
    /\ modify = [clients |-> <<>>, workers |-> <<>>, tasks |-> <<>>]
    /\ dataCorrections = [clients |-> Undefined, workers |-> Undefined, tasks |-> Undefined]
    /\ lastModified = {}
    /\ inFlight \in ParseSamples
    /\ isLoadingAI = (inFlight # <<>>)
    /\ aiError = Null
    /\ timers = 0
    /\ uncaught = FALSE
    /\ call = Idle
    /\ ViewMounted

NextRuleList ==
    \/ \E at, later \in Timestamps : handleAddRule(at, later)
    \/ \E idx \in 0..(MaxListed - 1), at \in Timestamps : handleRemoveRule(idx, at)
    \/ \E idx \in 1..2, at \in Timestamps : handleAddSuggestedRule(idx, at)
    \/ \E i \in 1..MaxInFlight, response \in ParseAnswers \cup Failures,
          at, later \in Timestamps : ParseRuleSettled(i, response, at, later)

SpecRuleList == InitRuleList /\ [][NextRuleList]_vars

(***************************************************************************)
(* SpecWeights: the five sliders                                           *)
(***************************************************************************)
SliderMin == 0
SliderMax == 100

\* positions the slider reports, between its min and its max
SliderValues == {SliderMin, 5, 50, SliderMax}

\* the keys of weightItems
WeightKeys == {"priorityLevel", "requestedTaskFulfillment", "fairness", "cost", "workload"}

InitWeights ==
    /\ \E c \in {Null, Table(<<baseClient>>)} :
          TablesMounted(c, Table(<<baseWorker>>), Table(<<baseTask>>), DefaultWeights)
    /\ apiKey = <<>>
    /\ rules \in StringsUpTo(RuleSamples, 1)
    /\ ruleType = sCoRun /\ ruleInput = <<>> /\ freeFormInput = <<>>
    /\ ruleSuggestions = <<>>
    /\ modify = [clients |-> <<>>, workers |-> <<>>, tasks |-> <<>>]
    /\ dataCorrections = [clients |-> Undefined, workers |-> Undefined, tasks |-> Undefined]
    /\ lastModified = {}
    /\ inFlight = <<>>
    /\ isLoadingAI = FALSE
    /\ aiError = Null
    /\ timers = 0
    /\ uncaught = FALSE
    /\ call = Idle
    /\ ViewMounted

NextWeights ==
    \E key \in WeightKeys, value \in SliderValues, at \in Timestamps :
        handleWeightChange(key, value, at)

SpecWeights == InitWeights /\ [][NextWeights]_vars

\* C13: after any sequence of rule-store operations (manual add, add of an
\* AI-parsed rule, add of a suggested rule, remove by index) every rule of the
\* list has one of the 7 kinds and carries a creation timestamp.
C13_RulesAreTagged ==
    \A k \in 1..Len(rules) :
        /\ rules[k].type \in {Str(kind) : kind \in RuleKinds}
        /\ "created" \in DOMAIN rules[k]
        /\ rules[k].created \in {ISOString(at) : at \in Timestamps}

\* the list without its i-th rule
WithoutRule(list, i) == SubSeq(list, 1, i - 1) \o SubSeq(list, i + 1, Len(list))

\* C14: rule list operations are pure append and remove-by-index: a step that
\* changes the list either puts one rule at the end and leaves the existing
\* rules and their order unchanged, or deletes exactly the rule at one
\* position and keeps the order of the others; no step edits a rule in place,
\* and a step that changes the list changes neither the weights nor the tables.
C14_AppendAndRemoveByIndex ==
    [][rules' # rules =>
         /\ \/ /\ Len(rules') = Len(rules) + 1
               /\ SubSeq(rules', 1, Len(rules)) = rules
            \/ /\ Len(rules') = Len(rules) - 1
               /\ \E i \in 1..Len(rules) : rules' = WithoutRule(rules, i)
         /\ weights' = weights
         /\ clients' = clients /\ workers' = workers /\ tasks' = tasks]_vars

\* a list of three rules of which one was removed or to which one was added
C14_Witness ==
    /\ lastModified = Stamp("rules", 1)
    /\ Len(rules) >= 2
    /\ \E j, k \in 1..Len(rules) : rules[j] # rules[k]

\* C15: setting a weight replaces exactly the named field of the weight
\* vector and leaves the other four weights, the rule list and the three
\* tables unchanged; the vector keeps exactly the five keys priorityLevel,
\* requestedTaskFulfillment, fairness, cost, workload, each within 0..100.
C15_SingleWeightReplaced ==
    /\ [](/\ DOMAIN weights = WeightKeys
          /\ \A key \in WeightKeys : weights[key] \in 0..100)
    /\ [][weights' # weights =>
            /\ \E key \in WeightKeys :
                  \A other \in WeightKeys \ {key} : weights'[other] = weights[other]
            /\ rules' = rules
            /\ clients' = clients /\ workers' = workers /\ tasks' = tasks]_vars

\* several dials moved off their initial position, one of them to an end of
\* the slider, with a rule in the list
C15_Witness ==
    /\ lastModified = Stamp("weights", 1)
    /\ weights.fairness = SliderMax
    /\ weights.cost = SliderMin
    /\ weights.priorityLevel = 5
    /\ Len(rules) = 1

(***************************************************************************)
(* The AI service, continued: mapHeaders, queryData, modifyData            *)
(***************************************************************************)
\* the schema of each entity, as mapHeaders spells it
ExpectedHeaders(entity) ==
    CASE entity = "clients" ->
            <<<<"C", "l", "i", "e", "n", "t", "I", "D">>, <<"C", "l", "i", "e", "n", "t", "N", "a", "m", "e">>, <<"P", "r", "i", "o", "r", "i", "t", "y", "L", "e", "v", "e", "l">>, <<"R", "e", "q", "u", "e", "s", "t", "e", "d", "T", "a", "s", "k", "I", "D", "s">>,
              <<"G", "r", "o", "u", "p", "T", "a", "g">>, <<"A", "t", "t", "r", "i", "b", "u", "t", "e", "s", "J", "S", "O", "N">>>>
      [] entity = "workers" ->
            <<<<"W", "o", "r", "k", "e", "r", "I", "D">>, <<"W", "o", "r", "k", "e", "r", "N", "a", "m", "e">>, <<"S", "k", "i", "l", "l", "s">>, <<"A", "v", "a", "i", "l", "a", "b", "l", "e", "S", "l", "o", "t", "s">>,
              <<"M", "a", "x", "L", "o", "a", "d", "P", "e", "r", "P", "h", "a", "s", "e">>, <<"W", "o", "r", "k", "e", "r", "G", "r", "o", "u", "p">>, <<"Q", "u", "a", "l", "i", "f", "i", "c", "a", "t", "i", "o", "n", "L", "e", "v", "e", "l">>>>
      [] entity = "tasks" ->
            <<<<"T", "a", "s", "k", "I", "D">>, <<"T", "a", "s", "k", "N", "a", "m", "e">>, <<"C", "a", "t", "e", "g", "o", "r", "y">>, <<"D", "u", "r", "a", "t", "i", "o", "n">>, <<"R", "e", "q", "u", "i", "r", "e", "d", "S", "k", "i", "l", "l", "s">>,
              <<"P", "r", "e", "f", "e", "r", "r", "e", "d", "P", "h", "a", "s", "e", "s">>, <<"M", "a", "x", "C", "o", "n", "c", "u", "r", "r", "e", "n", "t">>>>

\* s.replace(/\s|_/g, '')
RECURSIVE StripSpacesAndUnderscores(_)
StripSpacesAndUnderscores(s) ==
    IF s = <<>> THEN <<>>
    ELSE (IF IsSpace(Head(s)) \/ Head(s) = "_" THEN <<>> ELSE <<Head(s)>>)
           \o StripSpacesAndUnderscores(Tail(s))

\* expected.find(e => e.toLowerCase() === squeezed) || h
FoundOr(expected, squeezed, h) ==
    LET found == {k \in 1..Len(expected) : ToLowerCase(expected[k]) = squeezed}
    IN IF found = {} THEN h ELSE expected[CHOOSE k \in found : \A j \in found : k <= j]

\* mapHeaders without a key: the rule-based mapping
mapHeadersLocal(headers, entity) ==
    Arr([i \in 1..Len(headers) |->
            Str(FoundOr(ExpectedHeaders(entity),
                        StripSpacesAndUnderscores(ToLowerCase(headers[i])), headers[i]))])

\* mapped.length === headers.length ? mapped : headers, reading length of
\* null being a TypeError that the catch turns into headers
SameLengthOr(parsed, headers) ==
    IF /\ parsed.ok
       /\ ~MemberThrows(parsed.v)
       /\ Member(parsed.v, sLength) = NumCell(100 * Len(headers))
    THEN parsed.v
    ELSE Arr(StrsOf(headers))

\* mapHeaders with a key, callOpenAI having returned or thrown `out`
mapHeadersAI(headers, out) ==
    IF out.threw THEN Arr(StrsOf(headers))
    ELSE SameLengthOr(JSONParseText(out.text), headers)

\* /first.*sign\s*digit/i.test(s)
TestThenSpaced(s, first, sign, digit) ==
    LET i == IndexOfFrom(ToLowerCase(s), first, 1)
    IN /\ i > 0
       /\ \E j \in (i + Len(first))..Len(s) :
            /\ s[j] = sign
            /\ Matches(s, SkipSpaces(s, j + 1), digit)

\* a >= b, a <= b on JavaScript numbers
Ge(a, b) == ~a.nan /\ ~b.nan /\ a.v >= b.v
Le(a, b) == Ge(b, a)

\* data.filter(keep), as the sequence of the rows kept
RECURSIVE KeepRows(_, _, _)
KeepRows(rows, kept, n) ==
    IF n = 0 THEN <<>>
    ELSE KeepRows(rows, kept, n - 1) \o (IF n \in kept THEN <<rows[n]>> ELSE <<>>)

Kept(rows, kept) == Arr(KeepRows(rows, kept, Len(rows)))

\* Object.values(row).some(v => typeof v === 'string' &&
\* v.toLowerCase().includes(q))
SomeStringIncludes(row, q) ==
    \E col \in DOMAIN row : IsString(row[col]) /\ IncludesText(ToLowerCase(row[col].s), q)

\* the generic substring search of queryData
SubstringSearch(rows, q) == Kept(rows, {n \in 1..Len(rows) : SomeStringIncludes(rows[n], q)})

\* String(row.Skills || '').toLowerCase().includes(skill)
HasSkill(row, skill) ==
    IncludesText(ToLowerCase(StringOf(OrElse(Get(row, "Skills"), Str(<<>>)))), skill)

\* queryData without a key, for a query that is not blank
queryDataLocal(query, rows) ==
    IF TestThen(query, <<"p", "r", "i", "o", "r", "i", "t", "y">>, <<"h", "i", "g", "h">>)
    THEN Kept(rows, {n \in 1..Len(rows) :
                        Ge(ToNumber(Get(rows[n], "PriorityLevel")), Int100(4))})
    ELSE IF TestThen(query, <<"p", "r", "i", "o", "r", "i", "t", "y">>, <<"l", "o", "w">>)
    THEN Kept(rows, {n \in 1..Len(rows) :
                        Le(ToNumber(Get(rows[n], "PriorityLevel")), Int100(2))})
    ELSE IF TestThenSpaced(query, <<"d", "u", "r", "a", "t", "i", "o", "n">>, ">", <<"1">>)
    THEN Kept(rows, {n \in 1..Len(rows) :
                        Gt(ToNumber(Get(rows[n], "Duration")), Int100(1))})
    ELSE IF TestThenSpaced(query, <<"d", "u", "r", "a", "t", "i", "o", "n">>, "<", <<"3">>)
    THEN Kept(rows, {n \in 1..Len(rows) :
                        Lt(ToNumber(Get(rows[n], "Duration")), Int100(3))})
    ELSE IF TestThen(query, <<"s", "k", "i", "l", "l", "s">>, <<"p", "y", "t", "h", "o", "n">>)
    THEN Kept(rows, {n \in 1..Len(rows) : HasSkill(rows[n], <<"p", "y", "t", "h", "o", "n">>)})
    ELSE IF TestThen(query, <<"s", "k", "i", "l", "l", "s">>, <<"j", "a", "v", "a", "s", "c", "r", "i", "p", "t">>)
    THEN Kept(rows, {n \in 1..Len(rows) : HasSkill(rows[n], <<"j", "a", "v", "a", "s", "c", "r", "i", "p", "t">>)})
    ELSE SubstringSearch(rows, ToLowerCase(Trim(query)))

\* is s the canonical spelling of an array index: "0", or digits with no
\* leading zero
IsIndexString(s) ==
    /\ s # <<>>
    /\ \A k \in 1..Len(s) : IsDigit(s[k])
    /\ Len(s) > 1 => s[1] # "0"

\* [data[i]].filter(Boolean) for an element i of the answer: the row at an
\* integer index or at a string spelling one, data.length for "length" unless
\* it is 0, nothing otherwise (arrays, objects and the names of inherited
\* members are outside the enumerated answers)
Picked(rows, i) ==
    CASE i.t = "number" ->
            (IF i.n % 100 = 0 /\ i.n >= 0 /\ i.n \div 100 < Len(rows)
             THEN <<rows[(i.n \div 100) + 1]>> ELSE <<>>)
      [] i.t = "string" ->
            (IF IsIndexString(i.s) /\ DigitsValue(i.s, 1, Len(i.s) + 1) < Len(rows)
             THEN <<rows[DigitsValue(i.s, 1, Len(i.s) + 1) + 1]>>
             ELSE IF i.s = sLength /\ Len(rows) > 0 THEN <<NumCell(100 * Len(rows))>>
             ELSE <<>>)
      [] OTHER -> <<>>

\* indices.map(i => data[i]).filter(Boolean)
RECURSIVE PickAll(_, _, _)
PickAll(rows, indices, n) ==
    IF n = 0 THEN <<>> ELSE PickAll(rows, indices, n - 1) \o Picked(rows, indices[n])

\* the rows the answer selects; every row when the answer is no array; the
\* substring search when it does not parse
Selected(rows, parsed, q) ==
    IF ~parsed.ok THEN SubstringSearch(rows, q)
    ELSE IF IsArray(parsed.v) THEN Arr(PickAll(rows, parsed.v.e, Len(parsed.v.e)))
    ELSE Arr(rows)

\* queryData with a key, for a query that is not blank, callOpenAI having
\* returned or thrown `out`
queryDataAI(query, rows, out) ==
    IF out.threw THEN SubstringSearch(rows, ToLowerCase(Trim(query)))
    ELSE Selected(rows, JSONParseText(out.text), ToLowerCase(Trim(query)))

\* a number as a cell; NaN is a number cell too
NaNCell == [t |-> "number", n |-> 0, nan |-> TRUE]
CellOf(number) == IF number.nan THEN NaNCell ELSE NumCell(number.v)

\* data.map(row => ({ ...row, [col]: cellOf(row) }))
SetAll(rows, col, cells) == Arr([n \in 1..Len(rows) |-> With(rows[n], col, cells[n])])

\* the index of the last "to " at or after `from` that a digit follows
RECURSIVE LastToDigit(_, _, _)
LastToDigit(s, from, k) ==
    IF k < from THEN 0
    ELSE IF Matches(s, k, <<"t", "o", " ">>) /\ k + 3 <= Len(s) /\ IsDigit(s[k + 3]) THEN k
    ELSE LastToDigit(s, from, k - 1)

\* the index of the last "to " at or after `from` that a character follows
RECURSIVE LastToAny(_, _, _)
LastToAny(s, from, k) ==
    IF k < from THEN 0
    ELSE IF Matches(s, k, <<"t", "o", " ">>) /\ k + 3 <= Len(s) THEN k
    ELSE LastToAny(s, from, k - 1)

\* the index of the digits /first.*second.*to (\d+)/i captures in s (lower
\* case), 0 when it does not match: the quantifiers are greedy
CapturedDigits(s, first, second) ==
    LET i == IndexOfFrom(s, first, 1)
        j == IF i > 0 THEN IndexOfFrom(s, second, i + Len(first)) ELSE 0
        k == IF j > 0 THEN LastToDigit(s, j + Len(second), Len(s)) ELSE 0
    IN IF k > 0 THEN k + 3 ELSE 0

\* the index of the text /first.*second.*to (.+)/i captures
CapturedRest(s, first, second) ==
    LET i == IndexOfFrom(s, first, 1)
        j == IF i > 0 THEN IndexOfFrom(s, second, i + Len(first)) ELSE 0
        k == IF j > 0 THEN LastToAny(s, j + Len(second), Len(s)) ELSE 0
    IN IF k > 0 THEN k + 3 ELSE 0

\* the index of the digits /set all prioritylevel to (\d+)/i captures
CapturedLevel(s) ==
    LET lit == <<"s", "e", "t", " ", "a", "l", "l", " ", "p", "r", "i", "o", "r", "i", "t", "y", "l", "e", "v", "e", "l", " ", "t", "o", " ">>
        hits == {i \in 1..Len(s) : Matches(s, i, lit) /\ i + Len(lit) <= Len(s)
                                     /\ IsDigit(s[i + Len(lit)])}
    IN IF hits = {} THEN 0 ELSE (CHOOSE i \in hits : \A h \in hits : i <= h) + Len(lit)

\* Number(val) of the digits of s from index b
DigitsFrom(s, b) == NumCell(100 * DigitsValue(s, b, SkipDigits(s, b)))

\* Math.min(5, Number(row.PriorityLevel || 1) + 1)
Increased(row) ==
    LET p == ToNumber(OrElse(Get(row, "PriorityLevel"), NumCell(100)))
    IN CellOf(IF p.nan THEN NaN ELSE Number(Min(500, p.v + 100)))

\* Math.max(1, Number(row.PriorityLevel || 1) - 1)
Decreased(row) ==
    LET p == ToNumber(OrElse(Get(row, "PriorityLevel"), NumCell(100)))
    IN CellOf(IF p.nan THEN NaN ELSE Number(IF p.v - 100 < 100 THEN 100 ELSE p.v - 100))

\* the branches of the simple command parser after the first, `low` being
\* the command in lower case
ModifyOtherwise(command, low, rows) ==
    IF CapturedDigits(low, <<"s", "e", "t", " ", "a", "l", "l">>, <<"p", "r", "i", "o", "r", "i", "t", "y">>) > 0
    THEN SetAll(rows, "PriorityLevel",
                [n \in 1..Len(rows) |->
                    DigitsFrom(low, CapturedDigits(low, <<"s", "e", "t", " ", "a", "l", "l">>, <<"p", "r", "i", "o", "r", "i", "t", "y">>))])
    ELSE IF TestThen(low, <<"i", "n", "c", "r", "e", "a", "s", "e">>, <<"p", "r", "i", "o", "r", "i", "t", "y">>)
    THEN SetAll(rows, "PriorityLevel", [n \in 1..Len(rows) |-> Increased(rows[n])])
    ELSE IF TestThen(low, <<"d", "e", "c", "r", "e", "a", "s", "e">>, <<"p", "r", "i", "o", "r", "i", "t", "y">>)
    THEN SetAll(rows, "PriorityLevel", [n \in 1..Len(rows) |-> Decreased(rows[n])])
    ELSE IF CapturedRest(low, <<"s", "e", "t">>, <<"g", "r", "o", "u", "p">>) > 0
    THEN SetAll(rows, "GroupTag",
                [n \in 1..Len(rows) |->
                    Str(Trim(SubSeq(command, CapturedRest(low, <<"s", "e", "t">>, <<"g", "r", "o", "u", "p">>),
                                    Len(command))))])
    ELSE Arr(rows)

\* modifyData without a key, for a command that is not blank
modifyDataLocal(command, rows) ==
    IF CapturedLevel(ToLowerCase(command)) > 0
    THEN SetAll(rows, "PriorityLevel",
                [n \in 1..Len(rows) |->
                    DigitsFrom(command, CapturedLevel(ToLowerCase(command)))])
    ELSE ModifyOtherwise(command, ToLowerCase(command), rows)

\* a check of the answer that forgets its length
ArrayOr(parsed, rows) ==
    IF parsed.ok /\ IsArray(parsed.v) THEN parsed.v ELSE Arr(rows)

\* Array.isArray(modified) && modified.length === data.length ? modified : data
SameLengthArrayOr(parsed, rows) ==
    IF parsed.ok /\ IsArray(parsed.v) /\ Len(parsed.v.e) = Len(rows)
    THEN parsed.v
    ELSE Arr(rows)

\* modifyData with a key, for a command that is not blank, callOpenAI having
\* returned or thrown `out`
modifyDataAI(rows, out) ==
    IF out.threw THEN Arr(rows) ELSE SameLengthArrayOr(JSONParseText(out.text), rows)

(***************************************************************************)
(* A call of an aiService function: it runs to its fetch or to its return  *)
(***************************************************************************)
\* the function was called with these arguments and has not run yet
Called(fn, key, args) ==
    [phase |-> "called", fn |-> fn, key |-> key, args |-> args, requests |-> 0]

\* the call waits for its fetch
Awaiting(c) ==
    [phase |-> "awaiting", fn |-> c.fn, key |-> c.key, args |-> c.args,
     requests |-> c.requests + 1]

\* the promise of the call resolved with `value`; `local` when the
\* function took its path without a key or returned before looking at it,
\* `out` what callOpenAI returned or threw otherwise
Resolved(c, local, out, value) ==
    [phase |-> "resolved", fn |-> c.fn, key |-> c.key, args |-> c.args,
     requests |-> c.requests, local |-> local, out |-> out, value |-> value]

\* if (!query.trim()) return data; if (!nlCommand.trim()) return data
ReturnsAtOnce(c) ==
    CASE c.fn = "queryData" -> Trim(c.args.query) = <<>>
      [] c.fn = "modifyData" -> Trim(c.args.command) = <<>>
      [] OTHER -> FALSE

\* what the function returns on its path without a key
LocalValue(c) ==
    CASE c.fn = "mapHeaders" -> mapHeadersLocal(c.args.headers, c.args.entity)
      [] c.fn = "queryData" ->
            (IF ReturnsAtOnce(c) THEN c.args.data
             ELSE queryDataLocal(c.args.query, c.args.data.e))
      [] c.fn = "modifyData" ->
            (IF ReturnsAtOnce(c) THEN c.args.data
             ELSE modifyDataLocal(c.args.command, c.args.data.e))
      [] c.fn = "aiRuleRecommendations" ->
            aiRuleRecommendationsLocal(c.args.clients, c.args.workers, c.args.tasks)

\* what the function returns on its path with a key
AIValue(c, out) ==
    CASE c.fn = "mapHeaders" -> mapHeadersAI(c.args.headers, out)
      [] c.fn = "queryData" -> queryDataAI(c.args.query, c.args.data.e, out)
      [] c.fn = "modifyData" -> modifyDataAI(c.args.data.e, out)
      [] c.fn = "aiRuleRecommendations" -> aiRuleRecommendationsAI(out)

\* the function returns without a request: no key, or nothing to do
ServiceLocal ==
    /\ call.phase = "called"
    /\ ReturnsAtOnce(call) \/ call.key = <<>>
    /\ call' = Resolved(call, TRUE, Returned(<<>>), LocalValue(call))
    /\ UNCHANGED <<tableVars, weights, validationErrors, validationPending, crashed,
                   previewVars, ruleVars, assistVars, viewVars>>

\* callOpenAI throws before its fetch: the key has the wrong format
ServiceRefused ==
    /\ call.phase = "called"
    /\ ~ReturnsAtOnce(call) /\ call.key # <<>> /\ ~validateApiKey(call.key)
    /\ call' = Resolved(call, FALSE, InvalidKeyFormat, AIValue(call, InvalidKeyFormat))
    /\ UNCHANGED <<tableVars, weights, validationErrors, validationPending, crashed,
                   previewVars, ruleVars, assistVars, viewVars>>

\* callOpenAI sends its request
ServiceFetch ==
    /\ call.phase = "called"
    /\ ~ReturnsAtOnce(call) /\ validateApiKey(call.key)
    /\ call' = Awaiting(call)
    /\ UNCHANGED <<tableVars, weights, validationErrors, validationPending, crashed,
                   previewVars, ruleVars, assistVars, viewVars>>

\* the fetch settles and the function runs to its return
ServiceSettled(response) ==
    /\ call.phase = "awaiting"
    /\ call' = Resolved(call, FALSE, callOpenAI(response),
                        AIValue(call, callOpenAI(response)))
    /\ UNCHANGED <<tableVars, weights, validationErrors, validationPending, crashed,
                   previewVars, ruleVars, assistVars, viewVars>>

(***************************************************************************)
(* The calls of the specification of the service                           *)
(***************************************************************************)
MaxServiceRows == 2

\* a row with a number in it, a row with the same digit in a string
acme == [ClientID |-> Str(sC1), ClientName |-> Str(<<"A", "c", "m", "e">>), PriorityLevel |-> NumCell(300)]
beta == [ClientID |-> Str(sC2), ClientName |-> Str(<<"B", "e", "t", "a", " ", "3">>), PriorityLevel |-> Str(<<"5">>)]
coder == [WorkerID |-> Str(sW1), Skills |-> Str(<<"P", "y", "t", "h", "o", "n", ",", "g", "o">>), Duration |-> NumCell(200)]

ServiceTables == TablesUpTo({acme, beta, coder}, MaxServiceRows)

Queries ==
    {<<>>, <<" ">>, <<"3">>, <<"A", "C", "M", "E">>, <<"p", "r", "i", "o", "r", "i", "t", "y", " ", "i", "s", " ", "h", "i", "g", "h">>, <<"l", "o", "w", "?", " ", "p", "r", "i", "o", "r", "i", "t", "y", " ", "l", "o", "w">>,
     <<"d", "u", "r", "a", "t", "i", "o", "n", " ", ">", " ", " ", "1">>, <<"D", "u", "r", "a", "t", "i", "o", "n", "<", "3">>, <<"s", "k", "i", "l", "l", "s", ":", " ", "p", "y", "t", "h", "o", "n">>, <<"s", "k", "i", "l", "l", "s", " ", "j", "a", "v", "a", "s", "c", "r", "i", "p", "t">>}

QueryAnswers ==
    {Content(<<"[", "0", "]">>), Content(<<"[", "1", ",", " ", "0", "]">>), Content(<<"[", "7", "]">>), Content(<<"[", "\"", "1", "\"", "]">>),
     Content(<<"[", "\"", "l", "e", "n", "g", "t", "h", "\"", "]">>), Content(<<"{", "\"", "r", "o", "w", "s", "\"", ":", "[", "0", "]", "}">>), Content(<<"n", "u", "l", "l">>),
     Content(<<"r", "o", "w", "s", " ", "0", " ", "a", "n", "d", " ", "1">>)}

Commands ==
    {<<>>, <<"S", "e", "t", " ", "a", "l", "l", " ", "P", "r", "i", "o", "r", "i", "t", "y", "L", "e", "v", "e", "l", " ", "t", "o", " ", "4">>, <<"s", "e", "t", " ", "a", "l", "l", " ", "t", "h", "e", " ", "p", "r", "i", "o", "r", "i", "t", "y", " ", "t", "o", " ", "1", "2", " ", "o", "r", " ", "t", "o", " ", "2">>,
     <<"i", "n", "c", "r", "e", "a", "s", "e", " ", "p", "r", "i", "o", "r", "i", "t", "y">>, <<"p", "l", "e", "a", "s", "e", " ", "d", "e", "c", "r", "e", "a", "s", "e", " ", "t", "h", "e", " ", "p", "r", "i", "o", "r", "i", "t", "y">>,
     <<"s", "e", "t", " ", "g", "r", "o", "u", "p", " ", "t", "o", " ", " ", "G", "o", "l", "d", " ">>, <<"h", "e", "l", "l", "o">>}

ModifyAnswers ==
    {Content(<<"[", "]">>), Content(<<"[", "{", "\"", "C", "l", "i", "e", "n", "t", "I", "D", "\"", ":", "\"", "C", "1", "\"", "}", "]">>),
     Content(<<"[", "{", "\"", "C", "l", "i", "e", "n", "t", "I", "D", "\"", ":", "\"", "C", "1", "\"", "}", ",", "{", "\"", "C", "l", "i", "e", "n", "t", "I", "D", "\"", ":", "\"", "C", "2", "\"", "}", "]">>), Content(<<"{", "\"", "l", "e", "n", "g", "t", "h", "\"", ":", "1", "}">>),
     Content(<<"\"", "a", "b", "\"">>), Content(<<"n", "u", "l", "l">>), Content(<<"d", "o", "n", "e">>)}

RawHeaders ==
    {<<>>, <<<<"c", "l", "i", "e", "n", "t", " ", "i", "d">>, <<"C", "l", "i", "e", "n", "t", "_", "N", "a", "m", "e">>>>, <<<<"T", "a", "s", "k", "I", "D">>, <<"f", "o", "o">>, <<"d", "u", "r", "a", "t", "i", "o", "n">>>>}

Entities == {"clients", "workers", "tasks"}

HeaderAnswers ==
    {Content(<<"[", "\"", "C", "l", "i", "e", "n", "t", "I", "D", "\"", ",", "\"", "C", "l", "i", "e", "n", "t", "N", "a", "m", "e", "\"", "]">>), Content(<<"[", "\"", "T", "a", "s", "k", "I", "D", "\"", ",", "\"", "C", "a", "t", "e", "g", "o", "r", "y", "\"", ",", "\"", "D", "u", "r", "a", "t", "i", "o", "n", "\"", "]">>),
     Content(<<"\"", "a", "b", "\"">>), Content(<<"{", "\"", "l", "e", "n", "g", "t", "h", "\"", ":", "2", "}">>), Content(<<"{", "\"", "l", "e", "n", "g", "t", "h", "\"", ":", "\"", "2", "\"", "}">>),
     Content(<<"[", "]">>), Content(<<"n", "u", "l", "l">>), Content(<<"C", "l", "i", "e", "n", "t", "I", "D", ",", " ", "C", "l", "i", "e", "n", "t", "N", "a", "m", "e">>)}

\* a worker whose load exceeds its slots, a client that requests two tasks
overloaded == With(baseWorker, "MaxLoadPerPhase", NumCell(500))
twoTasks == With(baseClient, "RequestedTaskIDs", Str(sT1T2))

ServiceCalls ==
    {Called("mapHeaders", key, [headers |-> h, entity |-> e]) :
        key \in ApiKeys, h \in RawHeaders, e \in Entities}
    \cup {Called("queryData", key, [query |-> q, data |-> d]) :
            key \in ApiKeys, q \in Queries, d \in ServiceTables}
    \cup {Called("modifyData", key, [command |-> c, data |-> d]) :
            key \in ApiKeys, c \in Commands, d \in ServiceTables}
    \cup {Called("aiRuleRecommendations", key, [clients |-> c, workers |-> w, tasks |-> tk]) :
            key \in ApiKeys,
            c \in {Null, Table(<<>>), Table(<<baseClient>>), Table(<<twoTasks>>)},
            w \in {Null, Table(<<baseWorker>>), Table(<<overloaded>>)},
            tk \in {Null, Table(<<baseTask>>)}}

\* what the fetch of a call can settle with
Responses(fn) ==
    Failures \cup (CASE fn = "mapHeaders" -> HeaderAnswers
                     [] fn = "queryData" -> QueryAnswers
                     [] fn = "modifyData" -> ModifyAnswers
                     [] fn = "aiRuleRecommendations" -> SuggestionAnswers
                     [] OTHER -> {})

InitService ==
    /\ FeaturesMounted
    /\ TablesMounted(Null, Null, Null, DefaultWeights)
    /\ call \in ServiceCalls

NextService ==
    \/ ServiceLocal
    \/ ServiceRefused
    \/ ServiceFetch
    \/ \E response \in Responses(call.fn) : ServiceSettled(response)

SpecService == InitService /\ [][NextService]_vars

(***************************************************************************)
(* Claims about the aiService functions                                    *)
(***************************************************************************)
\* C16: aiRuleRecommendations always resolves, for null tables too, with a list,
\* and the list is empty when the tables give it no finding.
C16_EmptyWithoutFindings ==
    (call.phase = "resolved" /\ call.fn = "aiRuleRecommendations" /\ call.local) =>
        /\ call.value.t = "array"
        /\ Findings(call.args.clients, call.args.workers, call.args.tasks) = <<>>
              => call.value = Arr(<<>>)

\* is el one of the rows
IsRowOf(rows, el) == \E n \in 1..Len(rows) : rows[n] = el

\* does the stringified value of some field of the row contain q, in any case
SomeFieldIncludes(row, q) ==
    \E col \in DOMAIN row : IncludesText(ToLowerCase(StringOf(row[col])), q)

\* C17: queryData resolves with rows of its input only, whatever the query and
\* the response; when callOpenAI fails it resolves with exactly the rows that
\* have a field whose stringified value contains the query, in any case,
\* numbers included.
C17_SubsetAndSubstringFallback ==
    (call.phase = "resolved" /\ call.fn = "queryData") =>
        /\ call.value.t = "array"
        /\ \A k \in 1..Len(call.value.e) : IsRowOf(call.args.data.e, call.value.e[k])
        /\ (~call.local /\ call.out.threw) =>
              call.value = Kept(call.args.data.e,
                                {n \in 1..Len(call.args.data.e) :
                                    SomeFieldIncludes(call.args.data.e[n],
                                                      ToLowerCase(Trim(call.args.query)))})

\* the answer of the model is no array of the length of the rows
NotSameLengthArray(parsed, rows) ==
    ~parsed.ok \/ parsed.v.t # "array" \/ Len(parsed.v.e) # Len(rows)

\* C18: modifyData resolves with an array as long as its input, whatever the
\* command and the response; when callOpenAI throws, or its answer does not
\* parse, is no array or has another length, it resolves with the input rows.
C18_SameLengthOrUnchanged ==
    (call.phase = "resolved" /\ call.fn = "modifyData") =>
        /\ call.value.t = "array"
        /\ Len(call.value.e) = Len(call.args.data.e)
        /\ (~call.local /\ (call.out.threw
                             \/ NotSameLengthArray(JSONParseText(call.out.text),
                                                   call.args.data.e)))
              => call.value = call.args.data

C18_Witness ==
    /\ call.phase = "resolved" /\ call.fn = "modifyData" /\ call.requests = 1
    /\ ~call.out.threw
    /\ JSONParseText(call.out.text).ok
    /\ JSONParseText(call.out.text).v.t = "array"
    /\ Len(JSONParseText(call.out.text).v.e) = 1
    /\ Len(call.args.data.e) = 2
    /\ call.value = call.args.data

\* the answer of the model is no list of the length of the headers
NotSameLengthList(parsed, headers) ==
    ~parsed.ok \/ parsed.v.t # "array" \/ Len(parsed.v.e) # Len(headers)

\* C19: mapHeaders resolves with a list as long as the raw headers, whatever
\* the headers and the response; when callOpenAI throws, or its answer does
\* not parse or has another length, it resolves with the raw headers.
C19_SameLengthOrRawHeaders ==
    (call.phase = "resolved" /\ call.fn = "mapHeaders") =>
        /\ call.value.t = "array"
        /\ Len(call.value.e) = Len(call.args.headers)
        /\ (~call.local /\ (call.out.threw
                             \/ NotSameLengthList(JSONParseText(call.out.text),
                                                  call.args.headers)))
              => call.value = Arr(StrsOf(call.args.headers))

(***************************************************************************)
(* The tables: upload, inline edit, AI modification, AI corrections        *)
(***************************************************************************)
\* the keys of the rows, in the order and spelling of ExpectedHeaders
ColumnNames(entity) ==
    CASE entity = "clients" ->
            <<"ClientID", "ClientName", "PriorityLevel", "RequestedTaskIDs", "GroupTag",
              "AttributesJSON">>
      [] entity = "workers" ->
            <<"WorkerID", "WorkerName", "Skills", "AvailableSlots", "MaxLoadPerPhase",
              "WorkerGroup", "QualificationLevel">>
      [] entity = "tasks" ->
            <<"TaskID", "TaskName", "Category", "Duration", "RequiredSkills",
              "PreferredPhases", "MaxConcurrent">>

AllNames == ColumnNames("clients") \o ColumnNames("workers") \o ColumnNames("tasks")
AllSpelled == ExpectedHeaders("clients") \o ExpectedHeaders("workers") \o ExpectedHeaders("tasks")

\* the characters of a key, and the key with these characters (keys other
\* than the schema's are outside the enumerated files and answers)
Spell(name) == AllSpelled[CHOOSE k \in 1..Len(AllNames) : AllNames[k] = name]
ColumnOf(chars) == AllNames[CHOOSE k \in 1..Len(AllSpelled) : AllSpelled[k] = chars]

\* Object.keys(raw[0])
HeadersOf(raw) == [i \in 1..Len(raw.keys) |-> Spell(raw.keys[i])]

\* value ?? ''
OrEmpty(c) == IF c.t \in {"undefined", "null"} THEN Str(<<>>) ELSE c

\* mappedHeaders.forEach((h, i) => newRow[h] = row[Object.keys(row)[i]] ?? ''):
\* a header named twice keeps the last value
MappedRow(row, keys, mapped) ==
    [c \in {ColumnOf(mapped[i].s) : i \in 1..Len(mapped)} |->
        OrEmpty(Get(row, keys[CHOOSE i \in 1..Len(mapped) :
                               /\ ColumnOf(mapped[i].s) = c
                               /\ \A j \in 1..Len(mapped) :
                                    ColumnOf(mapped[j].s) = c => j <= i]))]

\* raw.map(row => newRow)
MappedRows(raw, mapped) ==
    Table([n \in 1..Len(raw.rows) |-> MappedRow(raw.rows[n], raw.keys, mapped)])

TableOf(entity) ==
    CASE entity = "clients" -> clients [] entity = "workers" -> workers
      [] entity = "tasks" -> tasks

\* setClients / setWorkers / setTasks with an array that was just built: the
\* dependency of the validation effect changed
SetFresh(entity, tb) ==
    /\ clients' = (IF entity = "clients" THEN tb ELSE clients)
    /\ workers' = (IF entity = "workers" THEN tb ELSE workers)
    /\ tasks' = (IF entity = "tasks" THEN tb ELSE tasks)
    /\ validationPending' = TRUE

\* the setter called with the array `data` the handler read before its
\* await: nothing happens while the state still holds that array; an array
\* of equal rows stored meanwhile is another array and the effect runs again
SetCaptured(entity, data) ==
    /\ clients' = (IF entity = "clients" THEN data ELSE clients)
    /\ workers' = (IF entity = "workers" THEN data ELSE workers)
    /\ tasks' = (IF entity = "tasks" THEN data ELSE tasks)
    /\ IF data = TableOf(entity)
       THEN validationPending' \in {validationPending, TRUE}
       ELSE validationPending' = TRUE

\* the continuation of handleFile after mapHeaders resolved: forEach of
\* anything but an array is a TypeError nobody catches
HeadersMapped(entity, raw, mappedHeaders) ==
    IF mappedHeaders.t = "array"
    THEN /\ SetFresh(entity, MappedRows(raw, mappedHeaders.e))
         /\ UNCHANGED uncaught
    ELSE /\ uncaught' = TRUE
         /\ UNCHANGED <<tableVars, validationPending>>

\* the file input: parseFile read `raw`
handleFile(entity, raw) ==
    /\ ~crashed
    /\ IF raw.rows = <<>>
       THEN /\ SetFresh(entity, Table(<<>>))
            /\ UNCHANGED <<inFlight, uncaught>>
       ELSE IF validateApiKey(apiKey)
       THEN /\ Len(inFlight) < MaxInFlight
            /\ inFlight' = Append(inFlight, [handler |-> "handleFile", entity |-> entity,
                                             raw |-> raw, requests |-> 1])
            /\ UNCHANGED <<tableVars, validationPending, uncaught>>
       ELSE /\ HeadersMapped(entity, raw,
                             IF apiKey = <<>>
                             THEN mapHeadersLocal(HeadersOf(raw), entity)
                             ELSE mapHeadersAI(HeadersOf(raw), InvalidKeyFormat))
            /\ UNCHANGED inFlight
    /\ UNCHANGED <<weights, validationErrors, crashed, previewVars, ruleVars, apiKey,
                   modify, dataCorrections, lastModified, isLoadingAI, aiError, timers,
                   call, viewVars>>

\* the fetch of a suspended handleFile settles
FileSettled(i, response) ==
    /\ ~crashed
    /\ i \in 1..Len(inFlight)
    /\ inFlight[i].handler = "handleFile"
    /\ inFlight' = Resumed(inFlight, i)
    /\ HeadersMapped(inFlight[i].entity, inFlight[i].raw,
                     mapHeadersAI(HeadersOf(inFlight[i].raw), callOpenAI(response)))
    /\ UNCHANGED <<weights, validationErrors, crashed, previewVars, ruleVars, apiKey,
                   modify, dataCorrections, lastModified, isLoadingAI, aiError, timers,
                   call, viewVars>>

\* the row with the id the grid adds
WithRowId(row, entity) == With(row, "id", Get(row, ColumnNames(entity)[1]))

\* clients.findIndex(client => client.ClientID === newRow.ClientID), 0 for -1
FindIndexByID(rows, entity, newRow) ==
    LET found == {k \in 1..Len(rows) :
                    Get(rows[k], ColumnNames(entity)[1]) = Get(newRow, ColumnNames(entity)[1])}
    IN IF found = {} THEN 0 ELSE CHOOSE k \in found : \A j \in found : k <= j

\* { ...row, ...newRow }
Merged(row, newRow) ==
    [c \in DOMAIN row \cup DOMAIN newRow |-> IF c \in DOMAIN newRow THEN newRow[c] ELSE row[c]]

\* setLastModified(prev => ({ ...prev, [key]: new Date() }))
Restamp(prev, key, at) == {p \in prev : p[1] # key} \cup Stamp(key, at)

\* processRowUpdate of the grid: the n-th row shown was edited in column col
processRowUpdate(entity, n, col, val, at) ==
    /\ ~crashed
    /\ TableOf(entity).t = "array"
    /\ n \in 1..Len(TableOf(entity).e)
    /\ FindIndexByID(TableOf(entity).e, entity,
                     With(WithRowId(TableOf(entity).e[n], entity), col, val)) > 0
    /\ SetFresh(entity,
                Table([TableOf(entity).e EXCEPT
                         ![FindIndexByID(TableOf(entity).e, entity,
                                         With(WithRowId(TableOf(entity).e[n], entity), col, val))]
                            = Merged(@, With(WithRowId(TableOf(entity).e[n], entity), col, val))]))
    /\ lastModified' = Restamp(lastModified, entity, at)
    /\ UNCHANGED <<weights, validationErrors, crashed, previewVars, ruleVars, apiKey,
                   modify, dataCorrections, isLoadingAI, aiError, timers, inFlight,
                   uncaught, call, viewVars>>

\* the command input of an entity
setModify(entity, text) ==
    /\ ~crashed
    /\ modify[entity] # text
    /\ modify' = [modify EXCEPT ![entity] = text]
    /\ UNCHANGED <<tableVars, weights, validationErrors, validationPending, crashed,
                   previewVars, ruleVars, apiKey, dataCorrections, lastModified,
                   isLoadingAI, aiError, timers, inFlight, uncaught, call, viewVars>>

\* an object of the answer as a row (cells that are arrays or objects are
\* outside the enumerated answers)
RowOf(obj) ==
    [c \in {ColumnOf(obj.m[k].k) : k \in 1..Len(obj.m)} |-> LastMember(obj.m, Spell(c))]

\* the suspended handlers that will arm a timer
Arming(ops) == Cardinality({k \in 1..Len(ops) : ops[k].handler = "handleModify"})

\* the continuation of handleModify after modifyData resolved with newData,
\* which is `data` itself unless the answer was taken
Modified(entity, data, newData, at) ==
    /\ IF newData = data
       THEN SetCaptured(entity, data)
       ELSE SetFresh(entity, Table([k \in 1..Len(newData.e) |-> RowOf(newData.e[k])]))
    /\ modify' = [modify EXCEPT ![entity] = <<>>]
    /\ lastModified' = Stamp(entity, at)
    /\ aiError' = Message("Successfully modified data")
    /\ timers' = timers + 1
    /\ isLoadingAI' = FALSE

\* the Apply button of an entity; it is never disabled
handleModify(entity, at) ==
    /\ ~crashed
    /\ modify[entity] # <<>>
    /\ IF apiKey = <<>>
       THEN /\ aiError' = Message("Please enter your OpenAI API key to use AI modification features")
            /\ UNCHANGED <<tableVars, validationPending, modify, lastModified, timers,
                           isLoadingAI, inFlight>>
       ELSE IF TableOf(entity) = Null
       THEN /\ aiError' = Message("No data available to modify")
            /\ isLoadingAI' = FALSE
            /\ UNCHANGED <<tableVars, validationPending, modify, lastModified, timers,
                           inFlight>>
       ELSE /\ timers + Arming(inFlight) < MaxTimers
            /\ IF Trim(modify[entity]) # <<>> /\ validateApiKey(apiKey)
               THEN /\ Len(inFlight) < MaxOverlap
                    /\ inFlight' = Append(inFlight,
                                          [handler |-> "handleModify", entity |-> entity,
                                           data |-> TableOf(entity), requests |-> 1])
                    /\ isLoadingAI' = TRUE
                    /\ aiError' = Null
                    /\ UNCHANGED <<tableVars, validationPending, modify, lastModified,
                                   timers>>
               ELSE /\ Modified(entity, TableOf(entity), TableOf(entity), at)
                    /\ UNCHANGED inFlight
    /\ UNCHANGED <<weights, validationErrors, crashed, previewVars, ruleVars, apiKey,
                   dataCorrections, uncaught, call, viewVars>>

\* the fetch of a suspended handleModify settles
ModifySettled(i, response, at) ==
    /\ ~crashed
    /\ i \in 1..Len(inFlight)
    /\ inFlight[i].handler = "handleModify"
    /\ inFlight' = Resumed(inFlight, i)
    /\ Modified(inFlight[i].entity, inFlight[i].data,
                modifyDataAI(inFlight[i].data.e, callOpenAI(response)), at)
    /\ UNCHANGED <<weights, validationErrors, crashed, previewVars, ruleVars, apiKey,
                   dataCorrections, uncaught, call, viewVars>>

\* suggestDataCorrections with a key, callOpenAI having returned or thrown
suggestDataCorrectionsAI(out) ==
    IF out.threw THEN Arr(<<>>) ELSE ParsedOr(JSONParseText(out.text), Arr(<<>>))

CorrectionsKey(entity) ==
    CASE entity = "clients" -> "corrections_clients"
      [] entity = "workers" -> "corrections_workers"
      [] entity = "tasks" -> "corrections_tasks"

\* the continuation of handleGetDataCorrections
CorrectionsArrived(entity, corrections, at) ==
    /\ dataCorrections' = [dataCorrections EXCEPT ![entity] = corrections]
    /\ lastModified' = Stamp(CorrectionsKey(entity), at)
    /\ isLoadingAI' = FALSE

\* the AI Corrections button: shown with a table that has rows, disabled
\* without a key and while loading
handleGetDataCorrections(entity, at) ==
    /\ ~crashed
    /\ HasRows(TableOf(entity))
    /\ apiKey # <<>>
    /\ ~isLoadingAI
    /\ IF validateApiKey(apiKey)
       THEN /\ Len(inFlight) < MaxInFlight
            /\ inFlight' = Append(inFlight, [handler |-> "handleGetDataCorrections",
                                             entity |-> entity, requests |-> 1])
            /\ isLoadingAI' = TRUE
            /\ UNCHANGED <<dataCorrections, lastModified>>
       ELSE /\ CorrectionsArrived(entity, suggestDataCorrectionsAI(InvalidKeyFormat), at)
            /\ UNCHANGED inFlight
    /\ aiError' = Null
    /\ UNCHANGED <<tableVars, weights, validationErrors, validationPending, crashed,
                   previewVars, ruleVars, apiKey, modify, timers, uncaught, call, viewVars>>

\* the fetch of a suspended handleGetDataCorrections settles
CorrectionsSettled(i, response, at) ==
    /\ ~crashed
    /\ i \in 1..Len(inFlight)
    /\ inFlight[i].handler = "handleGetDataCorrections"
    /\ inFlight' = Resumed(inFlight, i)
    /\ CorrectionsArrived(inFlight[i].entity, suggestDataCorrectionsAI(callOpenAI(response)), at)
    /\ UNCHANGED <<tableVars, weights, validationErrors, validationPending, crashed,
                   previewVars, ruleVars, apiKey, modify, aiError, timers, uncaught, call, viewVars>>

sRowIndex == <<"r", "o", "w", "I", "n", "d", "e", "x">>
sColumn == <<"c", "o", "l", "u", "m", "n">>
sSuggestedValue == <<"s", "u", "g", "g", "e", "s", "t", "e", "d", "V", "a", "l", "u", "e">>

\* the index of newData[correction.rowIndex] when there is such a row, else 0
RowAt(rows, i) ==
    CASE i.t = "number" ->
            (IF i.n % 100 = 0 /\ i.n >= 0 /\ i.n \div 100 < Len(rows)
             THEN (i.n \div 100) + 1 ELSE 0)
      [] i.t = "string" ->
            (IF IsIndexString(i.s) /\ DigitsValue(i.s, 1, Len(i.s) + 1) < Len(rows)
             THEN DigitsValue(i.s, 1, Len(i.s) + 1) + 1 ELSE 0)
      [] OTHER -> 0

\* the Apply button of the k-th correction shown for an entity
handleApplyCorrection(entity, k) ==
    /\ ~crashed
    /\ dataCorrections[entity].t = "array"
    /\ k \in 1..Len(dataCorrections[entity].e)
    /\ TableOf(entity) # Null
    /\ RowAt(TableOf(entity).e, Member(dataCorrections[entity].e[k], sRowIndex)) > 0
    /\ SetFresh(entity,
                Table([TableOf(entity).e EXCEPT
                         ![RowAt(TableOf(entity).e,
                                 Member(dataCorrections[entity].e[k], sRowIndex))]
                            = With(@, ColumnOf(Member(dataCorrections[entity].e[k], sColumn).s),
                                   Member(dataCorrections[entity].e[k], sSuggestedValue))]))
    /\ dataCorrections' = [dataCorrections EXCEPT
                              ![entity] = Arr(Resumed(dataCorrections[entity].e, k))]
    /\ \E at \in Timestamps : lastModified' = Stamp(entity, at)
    /\ UNCHANGED <<weights, validationErrors, crashed, previewVars, ruleVars, apiKey,
                   modify, isLoadingAI, aiError, timers, inFlight, uncaught, call, viewVars>>

\* the render a state change causes and the effects after it: the render
\* computes the allocation preview, the effect on [clients, workers, tasks]
\* validates
TablesCommitted ==
    /\ ~crashed
    /\ IF previewThrows(clients, workers, tasks)
       THEN /\ validationPending
            /\ crashed' = TRUE
            /\ UNCHANGED <<tableVars, weights, validationErrors, validationPending,
                           previewVars, pageVars>>
       ELSE ValidationEffect

(***************************************************************************)
(* SpecTables: the page from its mount, files uploaded, rows edited,       *)
(* commands and corrections applied                                        *)
(***************************************************************************)
RawFile(keys, rows) == [keys |-> keys, rows |-> rows]

\* the files chosen: complete ones, and a tasks file without the
\* PreferredPhases column
RawFiles(entity) ==
    CASE entity = "clients" -> {RawFile(ColumnNames("clients"), <<baseClient>>)}
      [] entity = "workers" -> {RawFile(<<>>, <<>>)}
      [] entity = "tasks" ->
            {RawFile(ColumnNames("tasks"), <<baseTask>>),
             RawFile(<<"TaskID", "TaskName", "Category", "Duration", "RequiredSkills",
                       "MaxConcurrent">>, <<Drop(baseTask, "PreferredPhases")>>)}

TableKeys == {<<>>, sKey}

\* the command typed for the clients
ModifyTexts == {<<>>, <<"r", "a", "i", "s", "e", " ", "p", "r", "i", "o", "r", "i", "t", "y">>}

\* the entity whose rows are edited, modified and corrected
Worked == {"clients"}

\* the cell edited in the grid of an entity
EditedColumn(entity) ==
    CASE entity = "clients" -> "PriorityLevel" [] entity = "workers" -> "MaxLoadPerPhase"
      [] entity = "tasks" -> "Duration"

EditedValues == {Str(<<"9">>)}

HeaderReplies ==
    {Rejected,
     Content(<<"[", "\"", "T", "a", "s", "k", "I", "D", "\"", ",", "\"", "T", "a", "s", "k", "N", "a", "m", "e", "\"", ",", "\"", "C", "a", "t", "e", "g", "o", "r", "y", "\"", ",", "\"", "D", "u", "r", "a", "t", "i", "o", "n", "\"", ",", "\"", "R", "e", "q", "u", "i", "r", "e", "d", "S", "k", "i", "l", "l", "s", "\"", ",", "\"", "P", "r", "e", "f", "e", "r", "r", "e", "d", "P", "h", "a", "s", "e", "s", "\"", ",", "\"", "M", "a", "x", "C", "o", "n", "c", "u", "r", "r", "e", "n", "t", "\"", "]">>),
     Content(<<"\"", "a", "b", "c", "d", "e", "f", "\"">>)}

ModifyReplies ==
    {NotOk(500), Content(<<"[", "{", "\"", "C", "l", "i", "e", "n", "t", "I", "D", "\"", ":", "\"", "C", "1", "\"", ",", "\"", "P", "r", "i", "o", "r", "i", "t", "y", "L", "e", "v", "e", "l", "\"", ":", "5", "}", "]">>), Content(<<"[", "]">>)}

CorrectionReplies ==
    {Rejected,
     Content(<<"[", "{", "\"", "r", "o", "w", "I", "n", "d", "e", "x", "\"", ":", "0", ",", "\"", "c", "o", "l", "u", "m", "n", "\"", ":", "\"", "P", "r", "i", "o", "r", "i", "t", "y", "L", "e", "v", "e", "l", "\"", ",", "\"", "c", "u", "r", "r", "e", "n", "t", "V", "a", "l", "u", "e", "\"", ":", "\"", "5", "\"", ",", "\"", "s", "u", "g", "g", "e", "s", "t", "e", "d", "V", "a", "l", "u", "e", "\"", ":", "\"", "4", "\"", ",", "\"", "r", "e", "a", "s", "o", "n", "\"", ":", "\"", "l", "o", "w", "e", "r", "\"", ",", "\"", "c", "o", "n", "f", "i", "d", "e", "n", "c", "e", "\"", ":", "0", ".", "9", "}", "]">>)}

\* the page after its mount, the key entered or not, a command typed or not
InitTables ==
    /\ TablesMounted(Null, Null, Null, DefaultWeights)
    /\ apiKey \in TableKeys
    /\ modify \in {[clients |-> text, workers |-> <<>>, tasks |-> <<>>] : text \in ModifyTexts}
    /\ rules = <<>>
    /\ ruleType = sCoRun
    /\ ruleInput = <<>>
    /\ freeFormInput = <<>>
    /\ ruleSuggestions = <<>>
    /\ dataCorrections = [clients |-> Undefined, workers |-> Undefined, tasks |-> Undefined]
    /\ lastModified = {}
    /\ isLoadingAI = FALSE
    /\ aiError = Null
    /\ timers = 0
    /\ inFlight = <<>>
    /\ uncaught = FALSE
    /\ call = Idle
    /\ ViewMounted

NextTables ==
    \/ \E entity \in Entities : \E raw \in RawFiles(entity) : handleFile(entity, raw)
    \/ \E i \in 1..MaxOverlap, response \in HeaderReplies : FileSettled(i, response)
    \/ \E entity \in Worked, val \in EditedValues, at \in Timestamps :
            processRowUpdate(entity, 1, EditedColumn(entity), val, at)
    \/ \E entity \in Worked, at \in Timestamps : handleModify(entity, at)
    \/ \E i \in 1..MaxOverlap, response \in ModifyReplies, at \in Timestamps :
            ModifySettled(i, response, at)
    \/ \E entity \in Worked, at \in Timestamps : handleGetDataCorrections(entity, at)
    \/ \E i \in 1..MaxOverlap, response \in CorrectionReplies, at \in Timestamps :
            CorrectionsSettled(i, response, at)
    \/ \E entity \in Worked : handleApplyCorrection(entity, 1)
    \/ MessageTimeout
    \/ TablesCommitted

SpecTables == InitTables /\ [][NextTables]_vars

(***************************************************************************)
(* Claims about the tables and the AI-backed operations                    *)
(***************************************************************************)
\* C12: once the effect on [clients, workers, tasks] has run, validationErrors
\* is validateData of the tables the page holds, and every step that changes
\* a table (upload, inline edit, AI modification, applied correction) leaves
\* the effect pending.
C12_IssuesFollowTables ==
    /\ [](~validationPending =>
            /\ ~validateDataThrows(clients, workers, tasks)
            /\ validationErrors = validateData(clients, workers, tasks))
    /\ [][tableVars' # tableVars => validationPending']_vars

\* C20: an AI-backed operation sends at most one request, no exception
\* escapes a handler, and when no operation is suspended the loading flag is
\* cleared.
C20_SingleShotNoEscape ==
    /\ ~uncaught
    /\ \A i \in 1..Len(inFlight) : inFlight[i].requests <= 1
    /\ inFlight = <<>> => ~isLoadingAI

(***************************************************************************)
(* Claims about the candidates of the scoring pass                         *)
(***************************************************************************)
\* the ti-th requested ID of client ci names a task of the table
Resolves(ci, ti) ==
    /\ ti \in 1..Len(SplitTags(Get(clients.e[ci], "RequestedTaskIDs")))
    /\ \E j \in 1..Len(tasks.e) :
         Get(tasks.e[j], "TaskID") = Str(SplitTags(Get(clients.e[ci], "RequestedTaskIDs"))[ti])

\* the skills of worker wi are a superset of the skills task tj requires
Superset(wi, tj) ==
    SeqToSet(SplitTags(Get(tasks.e[tj], "RequiredSkills")))
        \subseteq SeqToSet(SplitTags(Get(workers.e[wi], "Skills")))

\* candidate m comes before candidate n in client, then task, then worker order
Before(m, n) ==
    \/ allocations[m].ci < allocations[n].ci
    \/ /\ allocations[m].ci = allocations[n].ci
       /\ \/ allocations[m].ti < allocations[n].ti
          \/ allocations[m].ti = allocations[n].ti /\ allocations[m].wi < allocations[n].wi

\* C21: the pass pushes exactly one candidate for every client, every
\* occurrence of a requested ID that names a task, and every worker whose
\* skills are a superset of the task's, in client, task, worker order; an ID
\* that names no task gives no candidate; with a table absent there is no
\* candidate at all.
C21_OneCandidatePerTriple ==
    Previewed =>
        IF clients.t # "array" \/ workers.t # "array" \/ tasks.t # "array"
        THEN allocations = <<>> /\ allocationPreview = <<>>
        ELSE /\ \A n \in 1..Len(allocations) :
                  /\ allocations[n].ci \in 1..Len(clients.e)
                  /\ allocations[n].wi \in 1..Len(workers.e)
                  /\ Resolves(allocations[n].ci, allocations[n].ti)
                  /\ allocations[n].tj \in 1..Len(tasks.e)
                  /\ Get(tasks.e[allocations[n].tj], "TaskID")
                        = Str(SplitTags(Get(clients.e[allocations[n].ci],
                                            "RequestedTaskIDs"))[allocations[n].ti])
                  /\ Superset(allocations[n].wi, allocations[n].tj)
                  /\ \A m \in 1..(n - 1) : Before(m, n)
             /\ \A ci \in 1..Len(clients.e), wi \in 1..Len(workers.e) :
                  \A ti \in 1..Len(SplitTags(Get(clients.e[ci], "RequestedTaskIDs"))) :
                     (Resolves(ci, ti)
                        /\ Superset(wi, FindTask(tasks, SplitTags(Get(clients.e[ci],
                                                        "RequestedTaskIDs"))[ti])))
                        => \E n \in 1..Len(allocations) :
                              /\ allocations[n].ci = ci
                              /\ allocations[n].ti = ti
                              /\ allocations[n].wi = wi

\* two clients, a requested ID that names no task, a worker that lacks a
\* skill of a requested task, and several candidates
C21_Witness ==
    /\ Previewed
    /\ clients.t = "array" /\ workers.t = "array" /\ tasks.t = "array"
    /\ Len(allocations) >= 3
    /\ \E ci \in 1..Len(clients.e) :
         \E ti \in 1..Len(SplitTags(Get(clients.e[ci], "RequestedTaskIDs"))) : ~Resolves(ci, ti)
    /\ \E wi \in 1..Len(workers.e), tj \in 1..Len(tasks.e) :
         /\ ~Superset(wi, tj)
         /\ \E n \in 1..Len(allocations) : allocations[n].tj = tj

\* the AvailableSlots cell of the worker of candidate n does not parse as an array
SlotsUnparsed(n) ==
    LET r == JSONParse(Get(workers.e[allocations[n].wi], "AvailableSlots"))
    IN ~r.ok \/ ~IsArray(r.v)

\* C22: for a worker whose AvailableSlots is not JSON, or is JSON but no
\* array, the workload term is 0, the reason notes invalid slots, and the
\* score is the finite sum of the priority, fairness and cost terms.
C22_InvalidSlotsContributeZero ==
    (Previewed /\ clients.t = "array" /\ workers.t = "array" /\ tasks.t = "array") =>
        \A n \in 1..Len(allocations) :
            SlotsUnparsed(n) =>
                /\ allocations[n].workloadScore = Number(0)
                /\ allocations[n].reason[3] = [label |-> "Workload 0 pts (invalid slots)"]
                /\ ~allocations[n].score.nan
                /\ allocations[n].score
                      = Add(Add(allocations[n].priorityScore, allocations[n].fairnessScore),
                            allocations[n].costScore)

(***************************************************************************)
(* Claims about the table-level checks of validateData                     *)
(***************************************************************************)
\* the table-level errors of one column: one per required column that the
\* first row lacks, none for a table that is null or empty
ColumnsAsClaimed(entity, tb, cols) ==
    \A k \in 1..Len(cols) :
        Len(ErrorsAt(entity, NoRow, cols[k]))
            = IF Len(Rows(tb)) > 0 /\ cols[k] \notin DOMAIN Rows(tb)[1] THEN 1 ELSE 0

\* C23: once validateData has been applied to the tables, its list holds
\* exactly one table-level error (rowIndex null) per required column absent
\* from the keys of the first row of each non-empty table, and none for a
\* table that is empty or null.
C23_RequiredColumns ==
    ~validationPending =>
        /\ ColumnsAsClaimed("clients", clients, requiredClientCols)
        /\ ColumnsAsClaimed("workers", workers, requiredWorkerCols)
        /\ ColumnsAsClaimed("tasks", tasks, requiredTaskCols)

\* the saturation warnings validateData returned
SaturationWarnings ==
    SelectSeq(validationErrors, LAMBDA e : e.message = "Phase is oversaturated")

\* the numbers some worker's AvailableSlots array holds
PhaseNumbers ==
    {p \in UNION {SeqToSet(ElementsOf(JSONParse(Get(Rows(workers)[i], "AvailableSlots")))) :
                    i \in 1..Len(Rows(workers))} : p.t = "number"}

\* the sum of Duration over the tasks whose PreferredPhases includes the phase
DurationOver(phase) == IF HasRows(tasks) THEN TotalDuration(tasks, phase) ELSE Number(0)

\* the sum of MaxLoadPerPhase over the workers whose AvailableSlots includes it
LoadOver(phase) == IF HasRows(workers) THEN TotalSlots(workers, phase) ELSE Number(0)

C25_GroupTagWarning ==
    Validated =>
        \A i \in 1..Len(Rows(clients)) :
            IsString(Get(Rows(clients)[i], "GroupTag")) =>
                /\ Len(IssuesAt("clients", i - 1, "GroupTag"))
                     = IF Get(Rows(clients)[i], "GroupTag").s \in validGroups THEN 0 ELSE 1
                /\ ErrorsAt("clients", i - 1, "GroupTag") = <<>>

(***************************************************************************)
(* Claims about handlers that overlap                                      *)
(***************************************************************************)
\* the handlers that set isLoadingAI before their await
ShowsLoading(name) ==
    name \in {"handleModify", "handleGetRuleSuggestions", "handleGetDataCorrections",
              "handleRunAIValidation", "handleParseNaturalLanguageRule"}

\* C26: in every reachable state isLoadingAI is true while at least one
\* AI-backed operation (modify, rule suggestions, data corrections, AI
\* validation, rule parsing) is awaiting its response, also when a second
\* operation was started before the first returned.
C26_LoadingWhileAwaiting ==
    (\E i \in 1..Len(inFlight) : ShowsLoading(inFlight[i].handler)) => isLoadingAI

\* the table of an entity after the step
TableAfter(entity) ==
    CASE entity = "clients" -> clients'
      [] entity = "workers" -> workers'
      [] entity = "tasks" -> tasks'

\* a suspended handleModify: every cell of its table that differs from the
\* array it read before its await holds the same value once its result is stored
ChangesKept(op) ==
    (TableOf(op.entity).t = "array" /\ TableAfter(op.entity).t = "array") =>
        \A r \in 1..Len(TableOf(op.entity).e) :
            \A col \in DOMAIN TableOf(op.entity).e[r] :
                (r > Len(op.data.e) \/ Get(op.data.e[r], col) # TableOf(op.entity).e[r][col]) =>
                    /\ r <= Len(TableAfter(op.entity).e)
                    /\ Get(TableAfter(op.entity).e[r], col) = TableOf(op.entity).e[r][col]

\* C28: a change made to a table (inline edit, applied correction, upload)
\* while a modifyData call for that table is in flight is still in the table
\* after the call completes and its result is stored.
C28_NoLostUpdate ==
    [][\A i \in 1..Len(inFlight) :
          (inFlight[i].handler = "handleModify" /\ inFlight' = Resumed(inFlight, i)
             /\ ~crashed')
              => ChangesKept(inFlight[i])]_vars

\* the two messages that arm the timer
IsSuccessMessage(m) ==
    m # Null /\ m.message \in {"Rule parsed successfully! Type: ", "Successfully modified data"}

\* C30: the timer a success message arms clears only that message: an error
\* message a later operation set before the timer fires is still shown after
\* the timer fired.
C30_TimerClearsOnlySuccess ==
    [][(timers' < timers /\ aiError # Null /\ ~IsSuccessMessage(aiError))
          => aiError' = aiError]_vars

(***************************************************************************)
(* The filtered view: the search inputs, the doFilter effect on            *)
(* [search, clients, workers, tasks, apiKey], and the grid, whose rows are *)
(* withRowId(filtered[entity])                                             *)
(***************************************************************************)
\* the search input of an entity
setSearch(entity, text) ==
    /\ ~crashed
    /\ search[entity] # text
    /\ search' = [search EXCEPT ![entity] = text]
    /\ UNCHANGED <<tableVars, weights, validationErrors, validationPending, crashed,
                   previewVars, ruleVars, assistVars, call, filtered, filterRuns,
                   filterDeps>>

\* the dependencies of the doFilter effect
Deps ==
    [search |-> search, clients |-> clients, workers |-> workers, tasks |-> tasks,
     apiKey |-> apiKey]

\* Object.values(row).some(value => String(value).toLowerCase().includes(query))
SomeValueIncludes(row, query) ==
    \E col \in DOMAIN row : IncludesText(ToLowerCase(StringOf(row[col])), query)

\* the basic search of doFilter: query = search[entity].toLowerCase()
BasicSearch(rows, text) ==
    Kept(rows, {n \in 1..Len(rows) : SomeValueIncludes(rows[n], ToLowerCase(text))})

\* the order in which doFilter treats the entities
FilterOrder == <<"clients", "workers", "tasks">>

\* `clients && search.clients` for the k-th entity of a run
Searching(run, k) ==
    run.deps[FilterOrder[k]] # Null /\ run.deps.search[FilterOrder[k]] # <<>>

\* queryData sends a request: the query is not blank and the key is well formed
QueryFetches(query, key) == Trim(query) # <<>> /\ validateApiKey(key)

\* what queryData resolves with when it sends no request, the key given
QueryAtOnce(query, data, key) ==
    IF Trim(query) = <<>> THEN data ELSE queryDataAI(query, data.e, InvalidKeyFormat)

\* newFiltered[entity] = value
Found(run, k, value) == [run EXCEPT !.newFiltered[FilterOrder[k]] = value]

\* doFilter from its k-th entity to its next await (at = k) or to its
\* setFiltered (at = 4); aiService.queryData catches what it throws, so the
\* catch blocks of doFilter are never entered
RECURSIVE Advanced(_, _)
Advanced(run, k) ==
    IF k > Len(FilterOrder) THEN [run EXCEPT !.at = k]
    ELSE IF ~Searching(run, k) THEN Advanced(run, k + 1)
    ELSE IF run.deps.apiKey = <<>>
    THEN Advanced(Found(run, k, BasicSearch(run.deps[FilterOrder[k]].e,
                                            run.deps.search[FilterOrder[k]])), k + 1)
    ELSE IF QueryFetches(run.deps.search[FilterOrder[k]], run.deps.apiKey)
    THEN [run EXCEPT !.at = k]
    ELSE Advanced(Found(run, k, QueryAtOnce(run.deps.search[FilterOrder[k]],
                                            run.deps[FilterOrder[k]],
                                            run.deps.apiKey)), k + 1)

\* a run that reached its end calls setFiltered(newFiltered); one that
\* reached an await stays suspended between the runs before and after it
FilterRan(run, before, after) ==
    IF run.at > Len(FilterOrder)
    THEN /\ filtered' = run.newFiltered
         /\ filterRuns' = before \o after
    ELSE /\ filterRuns' = before \o <<run>> \o after
         /\ UNCHANGED filtered

\* a call of doFilter with the state of the render that ran the effect
Started ==
    [deps |-> Deps, at |-> 0,
     newFiltered |-> [clients |-> clients, workers |-> workers, tasks |-> tasks]]

\* the effect runs after a render in which a dependency changed, after the
\* validation effect declared before it; nothing cancels the earlier runs
doFilter ==
    /\ ~crashed
    /\ ~validationPending
    /\ filterDeps # Deps
    /\ filterDeps' = Deps
    /\ Advanced(Started, 1).at > Len(FilterOrder) \/ Len(filterRuns) < MaxFilterRuns
    /\ FilterRan(Advanced(Started, 1), filterRuns, <<>>)
    /\ UNCHANGED <<tableVars, weights, validationErrors, validationPending, crashed,
                   previewVars, ruleVars, assistVars, call, search>>

\* the fetch of the queryData a suspended run awaits settles
FilterSettled(i, response) ==
    /\ ~crashed
    /\ i \in 1..Len(filterRuns)
    /\ FilterRan(Advanced(Found(filterRuns[i], filterRuns[i].at,
                                queryDataAI(filterRuns[i].deps.search[FilterOrder[filterRuns[i].at]],
                                            filterRuns[i].deps[FilterOrder[filterRuns[i].at]].e,
                                            callOpenAI(response))),
                          filterRuns[i].at + 1),
                 SubSeq(filterRuns, 1, i - 1), SubSeq(filterRuns, i + 1, Len(filterRuns)))
    /\ UNCHANGED <<tableVars, weights, validationErrors, validationPending, crashed,
                   previewVars, ruleVars, assistVars, call, search, filterDeps>>

\* rows={withRowId(filtered[entity], entity)}: the rows a grid shows
Shown(entity) ==
    [n \in 1..Len(Rows(filtered[entity])) |-> WithRowId(Rows(filtered[entity])[n], entity)]

\* the table processRowUpdate stores for newRow, the table itself when
\* findIndex returns -1
UpdatedRows(rows, entity, newRow) ==
    IF FindIndexByID(rows, entity, newRow) = 0 THEN rows
    ELSE [rows EXCEPT ![FindIndexByID(rows, entity, newRow)] = Merged(@, newRow)]

\* processRowUpdate of the grid for the n-th row it shows, edited in column col
processRowUpdateShown(entity, n, col, val, at) ==
    /\ ~crashed
    /\ TableOf(entity).t = "array"
    /\ n \in 1..Len(Shown(entity))
    /\ FindIndexByID(TableOf(entity).e, entity, With(Shown(entity)[n], col, val)) > 0
    /\ SetFresh(entity, Table(UpdatedRows(TableOf(entity).e, entity,
                                          With(Shown(entity)[n], col, val))))
    /\ lastModified' = Restamp(lastModified, entity, at)
    /\ UNCHANGED <<weights, validationErrors, crashed, previewVars, ruleVars, apiKey,
                   modify, dataCorrections, isLoadingAI, aiError, timers, inFlight,
                   uncaught, call, viewVars>>

(***************************************************************************)
(* SpecView: a clients table searched and edited through its grid          *)
(***************************************************************************)
MaxViewRows == 2

bea == With(With(baseClient, "ClientID", Str(sC2)), "ClientName", Str(<<"B", "e", "a">>))
twin == With(baseClient, "ClientName", Str(<<"A", "l">>))

\* two clients, and two clients sharing the ID C1
ViewTables == {Table(<<baseClient, bea>>), Table(<<baseClient, twin>>)}

SearchTexts == {<<>>, <<"a", "n", "n">>, <<"b", "e">>}

\* the fetch fails, or the answer selects the first or the second row
FilterReplies == {Rejected, Content(<<"[", "0", "]">>), Content(<<"[", "1", "]">>)}

InitView ==
    /\ \E c \in ViewTables : TablesMounted(c, Null, Null, DefaultWeights)
    /\ apiKey \in TableKeys
    /\ rules = <<>>
    /\ ruleType = sCoRun
    /\ ruleInput = <<>>
    /\ freeFormInput = <<>>
    /\ ruleSuggestions = <<>>
    /\ modify = [clients |-> <<>>, workers |-> <<>>, tasks |-> <<>>]
    /\ dataCorrections = [clients |-> Undefined, workers |-> Undefined, tasks |-> Undefined]
    /\ lastModified = {}
    /\ isLoadingAI = FALSE
    /\ aiError = Null
    /\ timers = 0
    /\ inFlight = <<>>
    /\ uncaught = FALSE
    /\ call = Idle
    /\ ViewMounted

NextView ==
    \/ TablesCommitted
    \/ doFilter
    \/ \E i \in 1..MaxFilterRuns, response \in FilterReplies : FilterSettled(i, response)
    \/ \E entity \in Worked, text \in SearchTexts : setSearch(entity, text)
    \/ \E entity \in Worked, n \in 1..MaxViewRows, val \in EditedValues, at \in Timestamps :
            processRowUpdateShown(entity, n, EditedColumn(entity), val, at)

SpecView == InitView /\ [][NextView]_vars

(***************************************************************************)
(* Claims about the filtered view and the grid                             *)
(***************************************************************************)
\* what doFilter can store for an entity from the current table, search text
\* and key, over the replies of the service
FilteredNow(entity) ==
    IF TableOf(entity) = Null \/ search[entity] = <<>> THEN {TableOf(entity)}
    ELSE IF apiKey = <<>> THEN {BasicSearch(TableOf(entity).e, search[entity])}
    ELSE IF QueryFetches(search[entity], apiKey)
    THEN {queryDataAI(search[entity], TableOf(entity).e, callOpenAI(r)) : r \in FilterReplies}
    ELSE {QueryAtOnce(search[entity], TableOf(entity), apiKey)}

\* every effect has run and no query is pending
Quiescent == ~crashed /\ ~validationPending /\ filterRuns = <<>> /\ filterDeps = Deps

\* C27: once all pending queries have resolved, the filtered rows of every
\* entity are a result of filtering the current table by the current search
\* text: no result computed for an older search text or an older table is
\* left in the view.
C27_ViewConverges ==
    Quiescent => \A entity \in Entities : filtered[entity] \in FilteredNow(entity)

\* the cells a user types into the grid of an entity: a value, an ID
GridEdits(entity) ==
    {<<EditedColumn(entity), Str(<<"9">>)>>, <<ColumnNames(entity)[1], Str(<<"C", "9">>)>>}

\* the rows of the table that are the n-th row the grid shows
ShownAt(entity, n) ==
    {m \in 1..Len(TableOf(entity).e) : TableOf(entity).e[m] = Rows(filtered[entity])[n]}

\* the table after the edit keeps its length, has the value in the edited
\* row m and every other row unchanged
OnlyRowEdited(rows, after, m, col, val) ==
    /\ Len(after) = Len(rows)
    /\ Get(after[m], col) = val
    /\ \A j \in 1..Len(rows) : j # m => after[j] = rows[j]

\* C29: an inline edit of a row the grid shows changes exactly that row of
\* the table: the length is kept, every other row is unchanged and the edited
\* row holds the value, also under a search filter, for rows sharing an ID,
\* and when the ID itself is edited.
C29_EditChangesOnlyThatRow ==
    \A entity \in Worked, n \in 1..MaxViewRows :
        (~crashed /\ TableOf(entity).t = "array" /\ n <= Len(Shown(entity))) =>
            \A m \in ShownAt(entity, n), edit \in GridEdits(entity) :
                ShownAt(entity, n) = {m} =>
                    OnlyRowEdited(TableOf(entity).e,
                                  UpdatedRows(TableOf(entity).e, entity,
                                              With(Shown(entity)[n], edit[1], edit[2])),
                                  m, edit[1], edit[2])

====
